---- MODULE Spec2Model ----
(***************************************************************************)
(* A model of the pasal-ko-website backend: the flat variant (src/app with *)
(* the vote router of src/traditional/app) and the layered variant         *)
(* (src/clean_code_version/src).                                            *)
(*                                                                         *)
(* The relational store is modelled as tables with the constraints their   *)
(* ORM classes declare (primary keys, unique and NOT NULL columns, foreign *)
(* keys with ON DELETE CASCADE).  A statement sent to the store (a SELECT, *)
(* an INSERT, UPDATE or DELETE with its commit, a refresh) is atomic; a    *)
(* handler that sends several is a process, a record in reqs, that takes   *)
(* one step per statement, so that the statements of different requests    *)
(* interleave.  A step holds one statement and the code that follows it up *)
(* to the next statement or to the answer.                                  *)
(*                                                                         *)
(* The model follows a request from its dependencies to the answer the     *)
(* client receives.  Where the code reads an attribute its class does not  *)
(* declare, or maps a row to an entity that requires a field the row       *)
(* lacks, the exception the code raises is the outcome (status 500): the   *)
(* flat create_user, create_admin and login read models.User.username,     *)
(* which models.User does not declare; the response_model of the flat      *)
(* post_product, update_product and get_product requires the username of   *)
(* the product's user; the layered Post.from_orm and Vote.from_orm require *)
(* owner_username and dir, which PostModel and VoteModel lack.  In the     *)
(* layered application PostModel.owner names a property of UserModel that  *)
(* UserModel does not declare, so that the configuration of the mappers,   *)
(* which the first ORM use of a request runs, raises.                      *)
(*                                                                         *)
(* The database outlives the application: it may hold rows written before  *)
(* the application was started.  The flat application can insert no user   *)
(* row, and the layered one no vote row, so the specifications start from  *)
(* databases that hold such rows, always rows their schema admits.         *)
(***************************************************************************)
EXTENDS Integers, FiniteSets, Bags, TLC, Sequences

\* ---------------------------------------------------------------- bounds
MaxUserId == 2
MaxItemId == 1
MaxInFlight == 2
MaxTime == 2

\* settings.access_token_expire_minutes, in ticks of the model's clock.
access_token_expire_minutes == 2

UserIds == 1..MaxUserId
ItemIds == 1..MaxItemId
NULL == "NULL"
UNSET == "UNSET"
NoRow == [absent |-> TRUE]

VARIABLES
    variant,      \* "flat" or "layered": which application is deployed
    users,        \* users table: id -> row or NoRow
    next_user,    \* the users id sequence
    products,     \* flat products table: id -> row or NoRow
    next_item,    \* the products / posts id sequence
    posts,        \* layered posts table: id -> row or NoRow
    votes,        \* votes table: a bag of <<user_id, item_id>> rows
    reqs,         \* requests in flight (a bag of request records)
    now,          \* the server clock, in units of the token lifetime's resolution
    last          \* the response to the request that completed last

vars == <<variant, users, next_user, products, posts, next_item, votes, reqs,
          now, last>>

\* ------------------------------------------------------------ the store
Exists(table, id) == id \in DOMAIN table /\ table[id] # NoRow

\* Mutation: foreign keys without ON DELETE CASCADE that let the parent go.
VotesNoCascade(vs, us, ps) == vs

\* Votes.user_id / Votes.product_id: ForeignKey(..., ondelete="CASCADE").
VotesCascade(vs, us, ps) ==
    LET keep == { v \in DOMAIN vs : Exists(us, v[1]) /\ Exists(ps, v[2]) }
    IN  [v \in keep |-> vs[v]]

\* Product.user_id: ForeignKey("users.id", ondelete="CASCADE").
ProductsCascade(ps, us) ==
    [p \in DOMAIN ps |->
        IF ps[p] # NoRow /\ ~Exists(us, ps[p].user_id) THEN NoRow ELSE ps[p]]

\* Rows of a votes table for one (user, item) pair, and for one item.
VoteRowsIn(vs, u, p) == CopiesIn(<<u, p>>, vs)
ItemVoteRowsIn(vs, p) ==
    BagCardinality([v \in {w \in DOMAIN vs : w[2] = p} |-> vs[v]])
VoteRows(u, p) == VoteRowsIn(votes, u, p)
ItemVoteRows(p) == ItemVoteRowsIn(votes, p)
VotesAdd(u, p) == votes (+) SetToBag({<<u, p>>})
\* Mutation: the delete is filtered by the item alone.
VotesRemoveItem(u, p) == [v \in {w \in DOMAIN votes : w[2] # p} |-> votes[v]]
VotesRemoveAll(u, p) == [v \in DOMAIN votes \ {<<u, p>>} |-> votes[v]]

\* Mutation: a votes table without the composite primary key.
VotesInsertOkNoKey(u, p) == Exists(users, u) /\ Exists(products, p)

\* INSERT INTO votes (flat): the composite primary key (user_id, product_id)
\* and both foreign keys.
VotesInsertOk(u, p) ==
    /\ VoteRows(u, p) = 0
    /\ Exists(users, u)
    /\ Exists(products, p)

\* The record of a served request: who asked what, and the answer.  detail
\* names the HTTPException detail or the exception raised, and token the
\* bearer token a request was refused for; they are NULL and NoRow where the
\* model does not follow them.
Response(op, caller, target, dir, status, data) ==
    [op |-> op, caller |-> caller, target |-> target, dir |-> dir,
     status |-> status, data |-> data, detail |-> NULL, token |-> NoRow]

\* The answer to a request that ended in an exception no handler catches.
Raised(op, caller, target, dir, exception) ==
    [Response(op, caller, target, dir, 500, {}) EXCEPT !.detail = exception]

\* ------------------------------------------------------------- requests
\* A request in flight: the handler op, the id of current_user (0 for a
\* handler without the dependency), the id in the path or body, the request
\* body, the statement to send next and what the handler has read so far.
Req(op, caller, target, arg, pc, seen) ==
    [op |-> op, caller |-> caller, target |-> target, arg |-> arg,
     pc |-> pc, seen |-> seen]
Enqueue(r) == reqs' = reqs (+) SetToBag({r})
Dequeue(r) == reqs' = reqs (-) SetToBag({r})
Advance(r, pc, seen) ==
    reqs' = (reqs (-) SetToBag({r}))
            (+) SetToBag({Req(r.op, r.caller, r.target, r.arg, pc, seen)})
InFlight == BagToSet(reqs)
\* The request r of handler op is about to send the statement pc.
At(r, op, pc) == r \in InFlight /\ r.op = op /\ r.pc = pc
\* The number of requests of the handlers ops in flight.
InFlightOf(ops) ==
    BagCardinality([r \in {q \in DOMAIN reqs : q.op \in ops} |-> reqs[r]])
\* The number of requests of handler op that have yet to send their INSERT.
Inserting(op) ==
    BagCardinality([r \in {q \in DOMAIN reqs :
                              q.op = op /\ q.pc \notin {"refresh", "serialize"}}
                       |-> reqs[r]])

\* A pydantic model built from a row (from_attributes): every field the
\* model declares without a default must be an attribute of the row's
\* class; ValidationError otherwise.
ValidationError == [error |-> "ValidationError"]
from_orm(required, attributes, entity) ==
    IF required \subseteq attributes THEN entity ELSE ValidationError

\* oauth2.get_current_user: the token names a user whose row exists.
oauth2_get_current_user(u) == Exists(users, u)

\* ---------------------------------------------------- flat: users router
\* models.User: the columns the class declares.
UserColumns == {"id", "email", "password", "created_at", "approved", "admin"}
AttributeError == "AttributeError"
\* models.User.<name>: the column, or AttributeError for a name the class
\* does not declare.
UserAttribute(name) == IF name \in UserColumns THEN name ELSE AttributeError

\* schemas.UserCreate: the fields of a request body that the schema
\* declares; any other field of the body is dropped.
UserCreate(body) == [username |-> body.username, password |-> body.password]

\* schemas.AdminCreate: UserCreate with the flags, true where the body
\* leaves them out.
AdminCreate(body) ==
    [username |-> body.username, password |-> body.password,
     admin |-> IF "admin" \in DOMAIN body THEN body.admin ELSE TRUE,
     approved |-> IF "approved" \in DOMAIN body THEN body.approved ELSE TRUE]

\* create_user: line 14 builds its filter from models.User.username and
\* raises before a statement is sent.
create_user(user) ==
    /\ variant = "flat"
    /\ UserAttribute("username") = AttributeError
    /\ last' = Raised("create_user", 0, 0, NULL, AttributeError)
    /\ UNCHANGED <<variant, now, users, next_user, products, posts, next_item,
                   votes, reqs>>

\* create_admin: line 97 raises in the same way.
create_admin(user) ==
    /\ variant = "flat"
    /\ UserAttribute("username") = AttributeError
    /\ last' = Raised("create_admin", 0, 0, NULL, AttributeError)
    /\ UNCHANGED <<variant, now, users, next_user, products, posts, next_item,
                   votes, reqs>>

\* Mutation: a get_users without the admin test.
get_users_begin_ungated(u) ==
    /\ variant = "flat"
    /\ oauth2_get_current_user(u)
    /\ Enqueue(Req("get_users", u, 0, NoRow, "select", NoRow))
    /\ UNCHANGED <<variant, now, users, next_user, products, posts, next_item,
                   votes, last>>

\* get_users, lines 37-44: the dependency and the admin test.
get_users_begin(u) ==
    /\ variant = "flat"
    /\ oauth2_get_current_user(u)
    /\ IF ~users[u].admin
       THEN /\ last' = Response("get_users", u, 0, NULL, 403, {})
            /\ UNCHANGED reqs
       ELSE /\ Enqueue(Req("get_users", u, 0, NoRow, "select", NoRow))
            /\ UNCHANGED last
    /\ UNCHANGED <<variant, now, users, next_user, products, posts, next_item, votes>>

\* get_users, lines 45-46: db.query(models.User).all().
get_users_select(r) ==
    /\ variant = "flat"
    /\ At(r, "get_users", "select")
    /\ Dequeue(r)
    /\ last' = Response("get_users", r.caller, 0, NULL, 200,
                        {i \in UserIds : Exists(users, i)})
    /\ UNCHANGED <<variant, now, users, next_user, products, posts, next_item, votes>>

\* update_user, lines 50-55: the dependency; current_user holds the flags
\* of the caller's row as it was read.
update_user_begin(u, id, updated_user) ==
    /\ variant = "flat"
    /\ oauth2_get_current_user(u)
    /\ Enqueue(Req("update_user", u, id, updated_user, "lookup",
                   [admin |-> users[u].admin]))
    /\ UNCHANGED <<variant, now, users, next_user, products, posts, next_item,
                   votes, last>>

\* Mutation: an update_user without the admin test.
update_user_check_ungated(admin, found) == IF ~found THEN 404 ELSE 0

\* Mutation: the target is tested before the caller's admin flag.
update_user_check_target_first(admin, found) ==
    IF ~found THEN 404 ELSE IF ~admin THEN 403 ELSE 0

\* update_user, lines 59-68: the admin test, then the test of the target.
update_user_check(admin, found) ==
    IF ~admin THEN 403 ELSE IF ~found THEN 404 ELSE 0

\* update_user, lines 56-68: user_query.first(), then the two tests.
update_user_lookup(r) ==
    /\ variant = "flat"
    /\ At(r, "update_user", "lookup")
    /\ LET refused == update_user_check(r.seen.admin, Exists(users, r.target)) IN
       IF refused # 0
       THEN /\ Dequeue(r)
            /\ last' = Response("update_user", r.caller, r.target, NULL, refused, {})
       ELSE /\ Advance(r, "update", r.seen)
            /\ UNCHANGED last
    /\ UNCHANGED <<variant, now, users, next_user, products, posts, next_item, votes>>

\* Mutation: the UPDATE writes nothing.
UserPatchNotWritten(row, updated_user) == row

\* user_query.update(updated_user.dict()): the two flags of schemas.UserPatch.
UserPatch(row, updated_user) ==
    [row EXCEPT !.approved = updated_user.approved, !.admin = updated_user.admin]

\* update_user, lines 69-70: the UPDATE of the rows with the id (none when
\* the row has been deleted since the lookup) and the commit.
update_user_update(r) ==
    /\ variant = "flat"
    /\ At(r, "update_user", "update")
    /\ users' = IF Exists(users, r.target)
                THEN [users EXCEPT ![r.target] = UserPatch(users[r.target], r.arg)]
                ELSE users
    /\ Advance(r, "reload", r.seen)
    /\ UNCHANGED <<variant, now, next_user, products, posts, next_item, votes, last>>

\* update_user, line 71: user_query.first(), the row or None, answered 202.
update_user_reload(r) ==
    /\ variant = "flat"
    /\ At(r, "update_user", "reload")
    /\ Dequeue(r)
    /\ last' = Response("update_user", r.caller, r.target, NULL, 202,
                        IF Exists(users, r.target) THEN {r.target} ELSE {})
    /\ UNCHANGED <<variant, now, users, next_user, products, posts, next_item, votes>>

\* delete_user, lines 75-83: the dependency and the admin test.
delete_user_begin(u, id) ==
    /\ variant = "flat"
    /\ oauth2_get_current_user(u)
    /\ IF ~users[u].admin
       THEN /\ last' = Response("delete_user", u, id, NULL, 403, {})
            /\ UNCHANGED reqs
       ELSE /\ Enqueue(Req("delete_user", u, id, NoRow, "lookup", NoRow))
            /\ UNCHANGED last
    /\ UNCHANGED <<variant, now, users, next_user, products, posts, next_item, votes>>

\* delete_user, lines 84-90: user_query.first().
delete_user_lookup(r) ==
    /\ variant = "flat"
    /\ At(r, "delete_user", "lookup")
    /\ IF ~Exists(users, r.target)
       THEN /\ Dequeue(r)
            /\ last' = Response("delete_user", r.caller, r.target, NULL, 404, {})
       ELSE /\ Advance(r, "delete", NoRow)
            /\ UNCHANGED last
    /\ UNCHANGED <<variant, now, users, next_user, products, posts, next_item, votes>>

\* delete_user, lines 91-92: the DELETE of the rows with the id (none when
\* another request has deleted the row since the lookup) and the commit.
delete_user_delete(r) ==
    /\ variant = "flat"
    /\ At(r, "delete_user", "delete")
    /\ Dequeue(r)
    /\ users' = [users EXCEPT ![r.target] = NoRow]
    /\ products' = ProductsCascade(products, users')
    /\ votes' = VotesCascade(votes, users', products')
    /\ last' = Response("delete_user", r.caller, r.target, NULL, 204, {})
    /\ UNCHANGED <<variant, now, next_user, posts, next_item>>

\* ------------------------------------------------- flat: products router
\* schemas.UserOut: the fields it declares.
UserOutFields == {"id", "username"}
\* schemas.Product.user: schemas.UserOut built from the models.User row the
\* relationship Product.user loads for user_id, ValidationError when the
\* relationship loads None.
UserOut(us, user_id) ==
    IF ~Exists(us, user_id) THEN ValidationError
    ELSE from_orm(UserOutFields, UserColumns, [id |-> user_id])
\* fastapi serialize_response: the exception raised for a returned value
\* that its response_model does not validate.
ResponseValidationError == "ResponseValidationError"

\* post_product, lines 39-47: the dependency and the approved test.  The
\* dependency's SELECT is the first statement of the request's session: it
\* begins the transaction whose start time the INSERT's now() returns.
\* (The id sequence is bounded: a request is taken while an id is left for
\* it.)
post_product_begin(u, product) ==
    /\ variant = "flat"
    /\ oauth2_get_current_user(u)
    /\ IF ~users[u].approved
       THEN /\ last' = Response("post_product", u, 0, NULL, 403, {})
            /\ UNCHANGED reqs
       ELSE /\ next_item + Inserting("post_product") <= MaxItemId
            /\ Enqueue(Req("post_product", u, 0, product, "insert",
                           [began |-> now]))
            /\ UNCHANGED last
    /\ UNCHANGED <<variant, now, users, next_user, products, posts, next_item, votes>>

\* models.Product(user_id=current_user.id, **product.dict()) as the INSERT
\* stores it: a None is_available is left to the server default, created_at
\* is the server's now(), the start time of the transaction.
ProductRow(product, user_id, time) ==
    [name |-> product.name, price |-> product.price,
     is_available |-> IF product.is_available = NULL
                      THEN "true" ELSE product.is_available,
     created_at |-> time, user_id |-> user_id]

\* post_product, lines 48-50: the INSERT and its commit.  The INSERT takes
\* the next id of the sequence, also when the row is rejected: the foreign
\* key on user_id rejects the row of a caller deleted since the dependency
\* ran.
post_product_insert(r) ==
    /\ variant = "flat"
    /\ At(r, "post_product", "insert")
    /\ next_item \in DOMAIN products
    /\ next_item' = next_item + 1
    /\ IF ~Exists(users, r.caller)
       THEN /\ Dequeue(r)
            /\ last' = Raised("post_product", r.caller, 0, NULL, "IntegrityError")
            /\ UNCHANGED products
       ELSE /\ products' = [products EXCEPT ![next_item] =
                               ProductRow(r.arg, r.caller, r.seen.began)]
            /\ Advance(r, "refresh", [id |-> next_item])
            /\ UNCHANGED last
    /\ UNCHANGED <<variant, now, users, next_user, posts, votes>>

\* post_product, lines 51-52: db.refresh(new_product) selects the row by
\* its id and raises InvalidRequestError when it is gone; the handler
\* returns the object.
post_product_refresh(r) ==
    /\ variant = "flat"
    /\ At(r, "post_product", "refresh")
    /\ IF Exists(products, r.seen.id)
       THEN /\ Advance(r, "serialize", r.seen)
            /\ UNCHANGED last
       ELSE /\ Dequeue(r)
            /\ last' = Raised("post_product", r.caller, r.seen.id, NULL,
                              "InvalidRequestError")
    /\ UNCHANGED <<variant, now, users, next_user, products, posts, next_item, votes>>

\* post_product, line 38: response_model=schemas.Product.  The
\* serialisation of the returned object reads new_product.user, a SELECT of
\* the users row, and validates it as schemas.UserOut; the product stays
\* inserted when the validation fails.
post_product_serialize(r) ==
    /\ variant = "flat"
    /\ At(r, "post_product", "serialize")
    /\ Dequeue(r)
    /\ IF UserOut(users, r.caller) = ValidationError
       THEN last' = Raised("post_product", r.caller, r.seen.id, NULL,
                           ResponseValidationError)
       ELSE last' = Response("post_product", r.caller, r.seen.id, NULL, 201, {})
    /\ UNCHANGED <<variant, now, users, next_user, products, posts, next_item, votes>>

\* Mutation: a delete_product without the approved test.
delete_product_begin_ungated(u, id) ==
    /\ variant = "flat"
    /\ oauth2_get_current_user(u)
    /\ Enqueue(Req("delete_product", u, id, NoRow, "lookup", NoRow))
    /\ UNCHANGED <<variant, now, users, next_user, products, posts, next_item,
                   votes, last>>

\* delete_product, lines 73-81: the dependency and the approved test.
delete_product_begin(u, id) ==
    /\ variant = "flat"
    /\ oauth2_get_current_user(u)
    /\ IF ~users[u].approved
       THEN /\ last' = Response("delete_product", u, id, NULL, 403, {})
            /\ UNCHANGED reqs
       ELSE /\ Enqueue(Req("delete_product", u, id, NoRow, "lookup", NoRow))
            /\ UNCHANGED last
    /\ UNCHANGED <<variant, now, users, next_user, products, posts, next_item, votes>>

\* delete_product, lines 82-88: product_query.first().
delete_product_lookup(r) ==
    /\ variant = "flat"
    /\ At(r, "delete_product", "lookup")
    /\ IF ~Exists(products, r.target)
       THEN /\ Dequeue(r)
            /\ last' = Response("delete_product", r.caller, r.target, NULL, 404, {})
       ELSE /\ Advance(r, "delete", NoRow)
            /\ UNCHANGED last
    /\ UNCHANGED <<variant, now, users, next_user, products, posts, next_item, votes>>

\* delete_product, lines 89-90: the DELETE (of no row when another request
\* has deleted it since the lookup) and the commit.
delete_product_delete(r) ==
    /\ variant = "flat"
    /\ At(r, "delete_product", "delete")
    /\ Dequeue(r)
    /\ products' = [products EXCEPT ![r.target] = NoRow]
    /\ votes' = VotesCascade(votes, users, products')
    /\ last' = Response("delete_product", r.caller, r.target, NULL, 204, {})
    /\ UNCHANGED <<variant, now, users, next_user, posts, next_item>>

\* update_product, lines 98-107: the dependency and the approved test.
update_product_begin(u, id, updated_product) ==
    /\ variant = "flat"
    /\ oauth2_get_current_user(u)
    /\ IF ~users[u].approved
       THEN /\ last' = Response("update_product", u, id, NULL, 403, {})
            /\ UNCHANGED reqs
       ELSE /\ Enqueue(Req("update_product", u, id, updated_product, "lookup", NoRow))
            /\ UNCHANGED last
    /\ UNCHANGED <<variant, now, users, next_user, products, posts, next_item, votes>>

\* update_product, lines 108-114: product_query.first().
update_product_lookup(r) ==
    /\ variant = "flat"
    /\ At(r, "update_product", "lookup")
    /\ IF ~Exists(products, r.target)
       THEN /\ Dequeue(r)
            /\ last' = Response("update_product", r.caller, r.target, NULL, 404, {})
       ELSE /\ Advance(r, "update", NoRow)
            /\ UNCHANGED last
    /\ UNCHANGED <<variant, now, users, next_user, products, posts, next_item, votes>>

\* Mutation: an UPDATE that also stamps created_at with the server's time.
ProductUpdateStamping(row, updated_product) ==
    [row EXCEPT !.name = updated_product.name,
                !.price = updated_product.price,
                !.is_available = updated_product.is_available,
                !.created_at = now]

\* product_query.update(updated_product.dict()): the three fields of
\* schemas.ProductCreate.
ProductUpdate(row, updated_product) ==
    [row EXCEPT !.name = updated_product.name,
                !.price = updated_product.price,
                !.is_available = updated_product.is_available]

\* update_product, lines 115-116: the UPDATE and its commit.  Setting
\* is_available of a row to NULL violates NOT NULL (IntegrityError); when
\* the row has been deleted since the lookup the UPDATE matches no row.
update_product_update(r) ==
    /\ variant = "flat"
    /\ At(r, "update_product", "update")
    /\ IF Exists(products, r.target) /\ r.arg.is_available = NULL
       THEN /\ Dequeue(r)
            /\ last' = Raised("update_product", r.caller, r.target, NULL,
                              "IntegrityError")
            /\ UNCHANGED products
       ELSE /\ products' =
                 IF Exists(products, r.target)
                 THEN [products EXCEPT ![r.target] =
                          ProductUpdate(products[r.target], r.arg)]
                 ELSE products
            /\ Advance(r, "reload", NoRow)
            /\ UNCHANGED last
    /\ UNCHANGED <<variant, now, users, next_user, posts, next_item, votes>>

\* update_product, line 117: product_query.first(), the row or None, is
\* returned.  None is no schemas.Product (line 96, response_model): the
\* validation of the response fails, and the UPDATE stays committed.
update_product_reload(r) ==
    /\ variant = "flat"
    /\ At(r, "update_product", "reload")
    /\ IF ~Exists(products, r.target)
       THEN /\ Dequeue(r)
            /\ last' = Raised("update_product", r.caller, r.target, NULL,
                              ResponseValidationError)
       ELSE /\ Advance(r, "serialize", [user_id |-> products[r.target].user_id])
            /\ UNCHANGED last
    /\ UNCHANGED <<variant, now, users, next_user, products, posts, next_item, votes>>

\* update_product, lines 93-97: response_model=schemas.Product.  The
\* serialisation of the returned row reads its user, a SELECT of the users
\* row, and validates it as schemas.UserOut.
update_product_serialize(r) ==
    /\ variant = "flat"
    /\ At(r, "update_product", "serialize")
    /\ Dequeue(r)
    /\ IF UserOut(users, r.seen.user_id) = ValidationError
       THEN last' = Raised("update_product", r.caller, r.target, NULL,
                           ResponseValidationError)
       ELSE last' = Response("update_product", r.caller, r.target, NULL, 202,
                             {r.target})
    /\ UNCHANGED <<variant, now, users, next_user, products, posts, next_item, votes>>

\* get_product / get_products: Product LEFT OUTER JOIN Votes ON
\* Votes.product_id = Product.id, grouped by Product.id.  A product without
\* votes joins one row whose Votes columns are NULL.
ProductJoinVotes(vs, p) ==
    LET matching == {v \in DOMAIN vs : v[2] = p} IN
    IF matching = {}
    THEN SetToBag({[product |-> p, vote |-> NoRow]})
    ELSE [j \in {[product |-> p, vote |-> [user_id |-> v[1], product_id |-> v[2]]]
                    : v \in matching}
            |-> vs[<<j.vote.user_id, j.vote.product_id>>]]

\* func.count(models.Votes.product_id): the joined rows whose column is not NULL.
CountVotesProductId(join) ==
    BagCardinality([j \in {k \in DOMAIN join : k.vote # NoRow} |-> join[j]])

ProductVotes(vs, p) == CountVotesProductId(ProductJoinVotes(vs, p))

\* get_product, lines 56-69: the SELECT of the product with its count,
\* without a dependency; the row is returned.
get_product(id) ==
    /\ variant = "flat"
    /\ IF ~Exists(products, id)
       THEN /\ last' = Response("get_product", 0, id, NULL, 404, {})
            /\ UNCHANGED reqs
       ELSE /\ Enqueue(Req("get_product", 0, id, NoRow, "serialize",
                           [votes |-> ProductVotes(votes, id),
                            user_id |-> products[id].user_id]))
            /\ UNCHANGED last
    /\ UNCHANGED <<variant, now, users, next_user, products, posts, next_item, votes>>

\* get_product, line 55: response_model=schemas.ProductOut.  The
\* serialisation of the returned row validates its Product as
\* schemas.Product: it reads the product's user, a SELECT of the users row,
\* and validates it as schemas.UserOut.
get_product_serialize(r) ==
    /\ variant = "flat"
    /\ At(r, "get_product", "serialize")
    /\ Dequeue(r)
    /\ IF UserOut(users, r.seen.user_id) = ValidationError
       THEN last' = Raised("get_product", 0, r.target, NULL,
                           ResponseValidationError)
       ELSE last' = Response("get_product", 0, r.target, NULL, 200,
                             {r.seen.votes})
    /\ UNCHANGED <<variant, now, users, next_user, products, posts, next_item, votes>>

\* The characters of the product names and of the search terms a client
\* sends.
Chars(str) ==
    CASE str = "" -> <<>>
      [] str = "tea" -> <<"t", "e", "a">>
      [] str = "rice" -> <<"r", "i", "c", "e">>
      [] str = "TEA" -> <<"T", "E", "A">>
      [] str = "ce" -> <<"c", "e">>
      [] str = "dal" -> <<"d", "a", "l">>
lower(c) ==
    CASE c = "T" -> "t" [] c = "E" -> "e" [] c = "A" -> "a" [] OTHER -> c
SearchTerms == {"", "TEA", "ce", "dal"}

\* models.Product.name.ilike(f"%{search}%"): search occurs in name, the
\* case of the letters ignored.
ilike(name, search) ==
    LET n == [i \in 1..Len(Chars(name)) |-> lower(Chars(name)[i])]
        t == [i \in 1..Len(Chars(search)) |-> lower(Chars(search)[i])]
    IN \E i \in 0..(Len(n) - Len(t)) : SubSeq(n, i + 1, i + Len(t)) = t

\* The number of rows a query over matching rows returns with
\* .limit(limit).offset(skip).
LimitOffset(matching, limit, skip) ==
    LET left == IF matching > skip THEN matching - skip ELSE 0
    IN IF left < limit THEN left ELSE limit

\* get_products, lines 15-29: the SELECT of the products whose name matches
\* the search, each with its count, limited and offset.  The query has no
\* ORDER BY, so which of the matching rows it returns is the store's choice.
\* Without a row the list comprehension of lines 30-33 builds the empty
\* list, which is returned.
get_products(limit, skip, search) ==
    /\ variant = "flat"
    /\ LET matching == {id \in DOMAIN products :
                          Exists(products, id) /\ ilike(products[id].name, search)}
       IN \E results \in SUBSET matching :
             /\ Cardinality(results) =
                    LimitOffset(Cardinality(matching), limit, skip)
             /\ IF results = {}
                THEN /\ last' = Response("get_products", 0, 0, NULL, 200, {})
                     /\ UNCHANGED reqs
                ELSE /\ Enqueue(Req("get_products", 0, 0, NoRow, "serialize",
                                    [results |->
                                       {[id |-> id,
                                         votes |-> ProductVotes(votes, id),
                                         user_id |-> products[id].user_id]
                                           : id \in results}]))
                     /\ UNCHANGED last
    /\ UNCHANGED <<variant, now, users, next_user, products, posts, next_item, votes>>

\* get_products, lines 30-35: schemas.Product.from_orm(product) reads the
\* product's user, a SELECT of the users row, and validates it as
\* schemas.UserOut; the ValidationError it raises is not caught.
get_products_serialize(r) ==
    /\ variant = "flat"
    /\ At(r, "get_products", "serialize")
    /\ Dequeue(r)
    /\ IF \E x \in r.seen.results : UserOut(users, x.user_id) = ValidationError
       THEN last' = Raised("get_products", 0, 0, NULL, ValidationError.error)
       ELSE last' = Response("get_products", 0, 0, NULL, 200,
                             {[id |-> x.id, votes |-> x.votes]
                                 : x \in r.seen.results})
    /\ UNCHANGED <<variant, now, users, next_user, products, posts, next_item, votes>>

\* --------------------------------------- flat: vote router (traditional)
\* vote, lines 11-15: the dependency.
vote_begin(u, p, d) ==
    /\ variant = "flat"
    /\ oauth2_get_current_user(u)
    /\ Enqueue(Req("vote", u, p, [dir |-> d], "product", NoRow))
    /\ UNCHANGED <<variant, now, users, next_user, products, posts, next_item,
                   votes, last>>

\* vote, lines 16-18: the product is looked up.
vote_product(r) ==
    /\ variant = "flat"
    /\ At(r, "vote", "product")
    /\ IF ~Exists(products, r.target)
       THEN /\ Dequeue(r)
            /\ last' = Response("vote", r.caller, r.target, r.arg.dir, 404, {})
       ELSE /\ Advance(r, "lookup", NoRow)
            /\ UNCHANGED last
    /\ UNCHANGED <<variant, now, users, next_user, products, posts, next_item, votes>>

\* vote, lines 25-40: what the handler does with the looked-up vote.
vote_decide(dir, found_vote) ==
    IF dir = 1
    THEN IF found_vote THEN "conflict" ELSE "insert"
    ELSE IF ~found_vote THEN "missing" ELSE "delete"

\* vote, lines 19-30 and 35-37: the existing vote is looked up.
vote_lookup(r) ==
    /\ variant = "flat"
    /\ At(r, "vote", "lookup")
    /\ LET found_vote == VoteRows(r.caller, r.target) > 0
           todo == vote_decide(r.arg.dir, found_vote) IN
       IF todo = "conflict"
       THEN /\ Dequeue(r)
            /\ last' = Response("vote", r.caller, r.target, r.arg.dir, 409, {})
       ELSE IF todo = "missing"
       THEN /\ Dequeue(r)
            /\ last' = Response("vote", r.caller, r.target, r.arg.dir, 404, {})
       ELSE /\ Advance(r, todo, NoRow)
            /\ UNCHANGED last
    /\ UNCHANGED <<variant, now, users, next_user, products, posts, next_item, votes>>

\* vote, lines 31-34: db.add(new_vote); db.commit().  A primary-key or
\* foreign-key violation raises IntegrityError, which nothing catches.
vote_insert(r) ==
    /\ variant = "flat"
    /\ At(r, "vote", "insert")
    /\ Dequeue(r)
    /\ IF VotesInsertOk(r.caller, r.target)
       THEN /\ votes' = VotesAdd(r.caller, r.target)
            /\ last' = Response("vote", r.caller, r.target, r.arg.dir, 201, {})
       ELSE /\ UNCHANGED votes
            /\ last' = Raised("vote", r.caller, r.target, r.arg.dir, "IntegrityError")
    /\ UNCHANGED <<variant, now, users, next_user, products, posts, next_item>>

\* vote, lines 38-40: vote_query.delete(); db.commit().
vote_delete(r) ==
    /\ variant = "flat"
    /\ At(r, "vote", "delete")
    /\ Dequeue(r)
    /\ votes' = VotesRemoveAll(r.caller, r.target)
    /\ last' = Response("vote", r.caller, r.target, r.arg.dir, 201, {})
    /\ UNCHANGED <<variant, now, users, next_user, products, posts, next_item>>

\* ------------------------------------------------ layered: auth context
\* UserModel: the properties it declares, its columns (it declares no
\* relationship).  User: the fields it declares (it declares no
\* hashed_password).
UserModelAttributes == {"id", "email", "username", "password", "created_at"}
UserFields == {"email", "username", "id", "created_at"}

\* PostModel.owner = relationship("UserModel", back_populates="posts").
PostModel_owner == [argument |-> "UserModel", back_populates |-> "posts"]

\* The configuration of the mappers, which the first ORM use of a request
\* runs before it sends a statement, and every later one again after a
\* failure: back_populates must name a property of the related class,
\* InvalidRequestError otherwise.
InvalidRequestError == [error |-> "InvalidRequestError"]
configure_mappers ==
    IF PostModel_owner.back_populates \in UserModelAttributes
    THEN [configured |-> TRUE]
    ELSE InvalidRequestError

\* User.from_orm(row): created_at is not followed.
UserEntity(us, u) ==
    from_orm(UserFields, UserModelAttributes,
             [id |-> u, email |-> us[u].email, username |-> us[u].username])

\* SQLAlchemyUserRepository.get_by_id, the first ORM use of the request
\* whose dependency calls it: the entity, or None.
user_get_by_id(us, u) ==
    IF configure_mappers = InvalidRequestError THEN InvalidRequestError
    ELSE IF Exists(us, u) THEN UserEntity(us, u) ELSE NoRow

\* AuthService.get_password_hash / verify_password (passlib bcrypt).
get_password_hash(password) == <<"bcrypt", password>>
verify_password(plain_password, hashed_password) ==
    hashed_password = get_password_hash(plain_password)

\* SQLAlchemyUserRepository.get_by_email / get_by_username: a row is found.
get_by_email(email) ==
    \E u \in UserIds : Exists(users, u) /\ users[u].email = email
get_by_username(name) ==
    \E u \in UserIds : Exists(users, u) /\ users[u].username = name

\* UserModel.username / UserModel.email: unique=True.
UsernameUnique(name) ==
    ~\E u \in UserIds : Exists(users, u) /\ users[u].username = name
EmailUnique(email) ==
    ~\E u \in UserIds : Exists(users, u) /\ users[u].email = email

\* AuthUseCases.register_user, lines 13-17: get_by_email, the first ORM use
\* of the request.  (The id sequence is bounded: a request is taken while an
\* id is left for it.)
register_user(user) ==
    /\ variant = "layered"
    /\ IF configure_mappers = InvalidRequestError
       THEN /\ last' = Raised("register_user", 0, 0, NULL,
                              InvalidRequestError.error)
            /\ UNCHANGED reqs
       ELSE IF get_by_email(user.email)
       THEN /\ last' = [Response("register_user", 0, 0, NULL, 400, {}) EXCEPT
                           !.detail = "Email already registered"]
            /\ UNCHANGED reqs
       ELSE /\ next_user + Inserting("register_user") <= MaxUserId
            /\ Enqueue(Req("register_user", 0, 0, user, "username", NoRow))
            /\ UNCHANGED last
    /\ UNCHANGED <<variant, now, users, next_user, products, posts, next_item, votes>>

\* AuthUseCases.register_user, lines 18-22: get_by_username.
register_user_username(r) ==
    /\ variant = "layered"
    /\ At(r, "register_user", "username")
    /\ IF get_by_username(r.arg.username)
       THEN /\ Dequeue(r)
            /\ last' = [Response("register_user", 0, 0, NULL, 400, {}) EXCEPT
                           !.detail = "Username already taken"]
       ELSE /\ Advance(r, "insert", NoRow)
            /\ UNCHANGED last
    /\ UNCHANGED <<variant, now, users, next_user, products, posts, next_item, votes>>

\* SQLAlchemyUserRepository.create, lines 14-21: db.add(db_user);
\* db.commit().  The INSERT takes the next id of the sequence, also when
\* the row is rejected: a violation of a unique constraint raises
\* IntegrityError, which nothing catches.
user_repository_create(r) ==
    /\ variant = "layered"
    /\ At(r, "register_user", "insert")
    /\ next_user \in DOMAIN users
    /\ next_user' = next_user + 1
    /\ IF UsernameUnique(r.arg.username) /\ EmailUnique(r.arg.email)
       THEN /\ users' = [users EXCEPT ![next_user] =
                            [username |-> r.arg.username, email |-> r.arg.email,
                             password |-> get_password_hash(r.arg.password)]]
            /\ Advance(r, "refresh", [id |-> next_user])
            /\ UNCHANGED last
       ELSE /\ UNCHANGED users
            /\ Dequeue(r)
            /\ last' = Raised("register_user", 0, 0, NULL, "IntegrityError")
    /\ UNCHANGED <<variant, now, products, posts, next_item, votes>>

\* SQLAlchemyUserRepository.create, lines 22-23: db.refresh(db_user) and
\* User.from_orm(db_user), returned with 201.
user_repository_refresh(r) ==
    /\ variant = "layered"
    /\ At(r, "register_user", "refresh")
    /\ Dequeue(r)
    /\ IF ~Exists(users, r.seen.id)
       THEN last' = Raised("register_user", 0, r.seen.id, NULL,
                           InvalidRequestError.error)
       ELSE IF UserEntity(users, r.seen.id) = ValidationError
       THEN last' = Raised("register_user", 0, r.seen.id, NULL, "ValidationError")
       ELSE last' = Response("register_user", 0, r.seen.id, NULL, 201, {r.seen.id})
    /\ UNCHANGED <<variant, now, users, next_user, products, posts, next_item, votes>>

\* presentation/router.py get_current_user, lines 22-30: the dependency
\* hands the handler the user u when verify_token resolved the token's
\* user_id to u's row through SQLAlchemyUserRepository.get_by_id.
get_current_user(u) ==
    user_get_by_id(users, u) \notin {NoRow, InvalidRequestError}

\* ----------------------------------------------- layered: posts context
\* PostModel: its columns and its relationship.  Post: the fields it
\* declares without a default (votes has one).
PostModelAttributes ==
    {"id", "title", "content", "published", "created_at", "owner_id", "votes",
     "owner"}
PostFields ==
    {"title", "content", "id", "created_at", "owner_id", "owner_username"}

\* Post.from_orm(row) for the row with id p.
Post_from_orm(p) == from_orm(PostFields, PostModelAttributes, [id |-> p])

NotFound == [error |-> "HTTPException", status |-> 404]

\* SQLAlchemyPostRepository.get_by_id: HTTPException(404) raised by the
\* repository itself for an absent row, Post.from_orm(post) otherwise.
get_by_id(p) ==
    IF ~Exists(posts, p) THEN NotFound ELSE Post_from_orm(p)

\* posts/presentation/router.py get_post with PostUseCases.get_post: one
\* SELECT, the first ORM use of the request, without a dependency.
get_post(id) ==
    /\ variant = "layered"
    /\ LET post == IF configure_mappers = InvalidRequestError
                   THEN InvalidRequestError ELSE get_by_id(id) IN
       IF post = InvalidRequestError
       THEN last' = Raised("get_post", 0, id, NULL, InvalidRequestError.error)
       ELSE IF post = NotFound \/ post = NoRow
       THEN last' = Response("get_post", 0, id, NULL, 404, {})
       ELSE IF post = ValidationError
       THEN last' = Raised("get_post", 0, id, NULL, "ValidationError")
       ELSE last' = Response("get_post", 0, id, NULL, 200, {post.id})
    /\ UNCHANGED <<variant, now, users, next_user, products, posts, next_item, votes, reqs>>

\* create_post (router lines 31-36): the dependency, whose SELECT begins
\* the transaction of the request's session.  (The id sequence is bounded:
\* a request is taken while an id is left for it.)
create_post_begin(u, post) ==
    /\ variant = "layered"
    /\ get_current_user(u)
    /\ next_item + Inserting("create_post") <= MaxItemId
    /\ Enqueue(Req("create_post", u, 0, post, "insert", [began |-> now]))
    /\ UNCHANGED <<variant, now, users, next_user, products, posts, next_item,
                   votes, last>>

\* PostModel(**post.dict(), owner_id=owner_id) as the INSERT stores it:
\* created_at and votes are left to their server defaults, now() (the
\* start time of the transaction) and 0.
PostRow(post, owner_id, time) ==
    [title |-> post.title, content |-> post.content,
     published |-> post.published, created_at |-> time,
     owner_id |-> owner_id, votes |-> 0]

\* SQLAlchemyPostRepository.create, lines 14-19: the INSERT and its commit.
\* The INSERT takes the next id of the sequence, also when the foreign key
\* on owner_id rejects the row.
create_post_insert(r) ==
    /\ variant = "layered"
    /\ At(r, "create_post", "insert")
    /\ next_item \in DOMAIN posts
    /\ next_item' = next_item + 1
    /\ IF ~Exists(users, r.caller)
       THEN /\ Dequeue(r)
            /\ last' = Raised("create_post", r.caller, 0, NULL, "IntegrityError")
            /\ UNCHANGED posts
       ELSE /\ posts' = [posts EXCEPT ![next_item] =
                            PostRow(r.arg, r.caller, r.seen.began)]
            /\ Advance(r, "refresh", [id |-> next_item])
            /\ UNCHANGED last
    /\ UNCHANGED <<variant, now, users, next_user, products, votes>>

\* SQLAlchemyPostRepository.create, lines 20-21: db.refresh(db_post), then
\* Post.from_orm(db_post); the router answers 201 with the entity.
create_post_refresh(r) ==
    /\ variant = "layered"
    /\ At(r, "create_post", "refresh")
    /\ Dequeue(r)
    /\ IF ~Exists(posts, r.seen.id)
       THEN last' = Raised("create_post", r.caller, r.seen.id, NULL,
                           InvalidRequestError.error)
       ELSE IF Post_from_orm(r.seen.id) = ValidationError
       THEN last' = Raised("create_post", r.caller, r.seen.id, NULL,
                           "ValidationError")
       ELSE last' = Response("create_post", r.caller, r.seen.id, NULL, 201, {})
    /\ UNCHANGED <<variant, now, users, next_user, products, posts, next_item, votes>>

\* update_post (router lines 46-52): the dependency.
update_post_begin(u, id, post) ==
    /\ variant = "layered"
    /\ get_current_user(u)
    /\ Enqueue(Req("update_post", u, id, post, "lookup", NoRow))
    /\ UNCHANGED <<variant, now, users, next_user, products, posts, next_item,
                   votes, last>>

\* SQLAlchemyPostRepository.update lines 51-61 and delete lines 71-81: the
\* status raised for the looked-up row (NoRow for none), 0 for none raised.
owner_check(row, owner_id) ==
    IF row = NoRow THEN 404
    ELSE IF row.owner_id # owner_id THEN 403
    ELSE 0

\* SQLAlchemyPostRepository.update, lines 48-61: post_query.first().
update_post_lookup(r) ==
    /\ variant = "layered"
    /\ At(r, "update_post", "lookup")
    /\ LET refused == owner_check(posts[r.target], r.caller) IN
       IF refused # 0
       THEN /\ Dequeue(r)
            /\ last' = Response("update_post", r.caller, r.target, NULL, refused, {})
       ELSE /\ Advance(r, "update", NoRow)
            /\ UNCHANGED last
    /\ UNCHANGED <<variant, now, users, next_user, products, posts, next_item, votes>>

\* post_update.dict(exclude_unset=True): only the fields the request set.
ApplyPostUpdate(row, body) ==
    [row EXCEPT !.title = body.title, !.content = body.content,
                !.published = IF body.published = UNSET
                              THEN row.published ELSE body.published]

\* SQLAlchemyPostRepository.update, lines 63-64: the UPDATE and its commit.
\* Setting published of a row to NULL violates NOT NULL (IntegrityError);
\* when the row has been deleted since the lookup the UPDATE matches no row.
update_post_update(r) ==
    /\ variant = "layered"
    /\ At(r, "update_post", "update")
    /\ IF Exists(posts, r.target)
          /\ ApplyPostUpdate(posts[r.target], r.arg).published = NULL
       THEN /\ Dequeue(r)
            /\ last' = Raised("update_post", r.caller, r.target, NULL,
                              "IntegrityError")
            /\ UNCHANGED posts
       ELSE /\ posts' =
                 IF Exists(posts, r.target)
                 THEN [posts EXCEPT ![r.target] =
                          ApplyPostUpdate(posts[r.target], r.arg)]
                 ELSE posts
            /\ Advance(r, "reload", NoRow)
            /\ UNCHANGED last
    /\ UNCHANGED <<variant, now, users, next_user, products, next_item, votes>>

\* SQLAlchemyPostRepository.update, line 65: Post.from_orm(post_query
\* .first()), of the row or of None; the router answers 200 with the entity.
update_post_reload(r) ==
    /\ variant = "layered"
    /\ At(r, "update_post", "reload")
    /\ Dequeue(r)
    /\ IF ~Exists(posts, r.target) \/ Post_from_orm(r.target) = ValidationError
       THEN last' = Raised("update_post", r.caller, r.target, NULL,
                           "ValidationError")
       ELSE last' = Response("update_post", r.caller, r.target, NULL, 200, {})
    /\ UNCHANGED <<variant, now, users, next_user, products, posts, next_item, votes>>

\* delete_post (router lines 55-60): the dependency.
delete_post_begin(u, id) ==
    /\ variant = "layered"
    /\ get_current_user(u)
    /\ Enqueue(Req("delete_post", u, id, NoRow, "lookup", NoRow))
    /\ UNCHANGED <<variant, now, users, next_user, products, posts, next_item,
                   votes, last>>

\* SQLAlchemyPostRepository.delete, lines 68-81: post_query.first().
delete_post_lookup(r) ==
    /\ variant = "layered"
    /\ At(r, "delete_post", "lookup")
    /\ LET refused == owner_check(posts[r.target], r.caller) IN
       IF refused # 0
       THEN /\ Dequeue(r)
            /\ last' = Response("delete_post", r.caller, r.target, NULL, refused, {})
       ELSE /\ Advance(r, "delete", NoRow)
            /\ UNCHANGED last
    /\ UNCHANGED <<variant, now, users, next_user, products, posts, next_item, votes>>

\* SQLAlchemyPostRepository.delete, lines 83-85: the DELETE (of no row
\* when another request has deleted it since the lookup), the commit and
\* True, which the router answers with 204.
delete_post_delete(r) ==
    /\ variant = "layered"
    /\ At(r, "delete_post", "delete")
    /\ Dequeue(r)
    /\ posts' = [posts EXCEPT ![r.target] = NoRow]
    /\ votes' = VotesCascade(votes, users, posts')
    /\ last' = Response("delete_post", r.caller, r.target, NULL, 204, {})
    /\ UNCHANGED <<variant, now, users, next_user, products, next_item>>

\* ----------------------------------------------- layered: votes context
\* VoteModel: its columns.  Vote: the fields it declares.
VoteModelAttributes == {"id", "user_id", "post_id", "created_at"}
VoteFields == {"post_id", "dir", "id", "user_id", "created_at"}

\* Vote.from_orm(row) for the row of user u on post p.
Vote_from_orm(u, p) ==
    from_orm(VoteFields, VoteModelAttributes, [user_id |-> u, post_id |-> p])

\* INSERT INTO votes (layered): VoteModel has a surrogate primary key and
\* the two foreign keys; it declares no unique constraint.
VoteModelInsertOk(u, p) == Exists(users, u) /\ Exists(posts, p)

\* VoteUseCases.vote_post lines 19-30: a None result of the service is an
\* error chosen by the direction; anything else is returned (201).
vote_use_case_status(dir, result) ==
    IF result = "none" /\ dir = 1 THEN 409
    ELSE IF result = "none" /\ dir = 0 THEN 404
    ELSE 201

\* VoteService.vote_post lines 21-29: what the service does with the
\* looked-up vote.
vote_post_decide(dir, existing_vote) ==
    IF dir = 1
    THEN IF existing_vote THEN "none" ELSE "create"
    ELSE IF ~existing_vote THEN "none" ELSE "delete"

\* VoteService.vote_post lines 24, 29 and 35: the value returned after the
\* counter was written back.
vote_post_result(dir) == IF dir = 1 THEN "vote" ELSE "none"

\* votes/presentation/router.py vote: the dependency, then
\* VoteUseCases.vote_post lines 11-15.
vote_post_begin(u, p, d) ==
    /\ variant = "layered"
    /\ get_current_user(u)
    /\ IF d \notin {0, 1}
       THEN /\ last' = Response("vote_post", u, p, d, 400, {})
            /\ UNCHANGED reqs
       ELSE /\ Enqueue(Req("vote_post", u, p, [dir |-> d], "post", NoRow))
            /\ UNCHANGED last
    /\ UNCHANGED <<variant, now, users, next_user, products, posts, next_item, votes>>

\* VoteService.vote_post lines 13-16: post_service.get_post.  The
\* repository raises for an absent post and Post.from_orm for a present one.
vote_post_get_post(r) ==
    /\ variant = "layered"
    /\ At(r, "vote_post", "post")
    /\ LET post == get_by_id(r.target) IN
       IF post = NotFound
       THEN /\ Dequeue(r)
            /\ last' = Response("vote_post", r.caller, r.target, r.arg.dir, 404, {})
       ELSE IF post = ValidationError
       THEN /\ Dequeue(r)
            /\ last' = Raised("vote_post", r.caller, r.target, r.arg.dir,
                              "ValidationError")
       ELSE IF post = NoRow
       THEN \* "if not post: return None", mapped by the use case
            /\ Dequeue(r)
            /\ last' = Response("vote_post", r.caller, r.target, r.arg.dir,
                                vote_use_case_status(r.arg.dir, "none"), {})
       ELSE /\ Advance(r, "lookup", NoRow)
            /\ UNCHANGED last
    /\ UNCHANGED <<variant, now, users, next_user, products, posts, next_item, votes>>

\* SQLAlchemyVoteRepository.get_vote: None, or Vote.from_orm(vote).
get_vote(p, u) == IF VoteRows(u, p) = 0 THEN NoRow ELSE Vote_from_orm(u, p)

\* VoteService.vote_post lines 19-27; a None result is mapped by
\* VoteUseCases.vote_post lines 19-28.
vote_post_lookup(r) ==
    /\ variant = "layered"
    /\ At(r, "vote_post", "lookup")
    /\ LET existing_vote == get_vote(r.target, r.caller) IN
       IF existing_vote = ValidationError
       THEN /\ Dequeue(r)
            /\ last' = Raised("vote_post", r.caller, r.target, r.arg.dir,
                              "ValidationError")
       ELSE LET todo == vote_post_decide(r.arg.dir, existing_vote # NoRow) IN
            IF todo = "none"
            THEN /\ Dequeue(r)
                 /\ last' = Response("vote_post", r.caller, r.target, r.arg.dir,
                                     vote_use_case_status(r.arg.dir, "none"), {})
            ELSE /\ Advance(r, todo, NoRow)
                 /\ UNCHANGED last
    /\ UNCHANGED <<variant, now, users, next_user, products, posts, next_item, votes>>

\* SQLAlchemyVoteRepository.create, lines 13-18: the INSERT and its commit.
vote_post_create(r) ==
    /\ variant = "layered"
    /\ At(r, "vote_post", "create")
    /\ IF VoteModelInsertOk(r.caller, r.target)
       THEN /\ votes' = VotesAdd(r.caller, r.target)
            /\ Advance(r, "refresh", NoRow)
            /\ UNCHANGED last
       ELSE /\ UNCHANGED votes
            /\ Dequeue(r)
            /\ last' = Raised("vote_post", r.caller, r.target, r.arg.dir,
                              "IntegrityError")
    /\ UNCHANGED <<variant, now, users, next_user, products, posts, next_item>>

\* SQLAlchemyVoteRepository.create, lines 19-20: db.refresh(db_vote), then
\* Vote.from_orm(db_vote).
vote_post_refresh(r) ==
    /\ variant = "layered"
    /\ At(r, "vote_post", "refresh")
    /\ IF VoteRows(r.caller, r.target) = 0
       THEN /\ Dequeue(r)
            /\ last' = Raised("vote_post", r.caller, r.target, r.arg.dir,
                              InvalidRequestError.error)
       ELSE IF Vote_from_orm(r.caller, r.target) = ValidationError
       THEN /\ Dequeue(r)
            /\ last' = Raised("vote_post", r.caller, r.target, r.arg.dir,
                              "ValidationError")
       ELSE /\ Advance(r, "count", NoRow)
            /\ UNCHANGED last
    /\ UNCHANGED <<variant, now, users, next_user, products, posts, next_item, votes>>

\* SQLAlchemyVoteRepository.delete, lines 29-34: vote_query.first(); the
\* service ignores the False returned for no row.
vote_post_delete(r) ==
    /\ variant = "layered"
    /\ At(r, "vote_post", "delete")
    /\ Advance(r, IF VoteRows(r.caller, r.target) = 0 THEN "count" ELSE "remove",
               NoRow)
    /\ UNCHANGED <<variant, now, users, next_user, products, posts, next_item,
                   votes, last>>

\* SQLAlchemyVoteRepository.delete, lines 36-38: vote_query.delete() and
\* the commit.
vote_post_remove(r) ==
    /\ variant = "layered"
    /\ At(r, "vote_post", "remove")
    /\ votes' = VotesRemoveAll(r.caller, r.target)
    /\ Advance(r, "count", NoRow)
    /\ UNCHANGED <<variant, now, users, next_user, products, posts, next_item, last>>

\* SQLAlchemyVoteRepository.get_vote_count.
vote_post_count(r) ==
    /\ variant = "layered"
    /\ At(r, "vote_post", "count")
    /\ Advance(r, "update", [vote_count |-> ItemVoteRows(r.target)])
    /\ UNCHANGED <<variant, now, users, next_user, products, posts, next_item,
                   votes, last>>

\* SQLAlchemyPostRepository.update_votes, lines 88-95: post_query.first().
vote_post_update(r) ==
    /\ variant = "layered"
    /\ At(r, "vote_post", "update")
    /\ IF ~Exists(posts, r.target)
       THEN /\ Dequeue(r)
            /\ last' = Response("vote_post", r.caller, r.target, r.arg.dir, 404, {})
       ELSE /\ Advance(r, "write", r.seen)
            /\ UNCHANGED last
    /\ UNCHANGED <<variant, now, users, next_user, products, posts, next_item, votes>>

\* SQLAlchemyPostRepository.update_votes, lines 97-98: the UPDATE and its
\* commit.
vote_post_write(r) ==
    /\ variant = "layered"
    /\ At(r, "vote_post", "write")
    /\ posts' = IF Exists(posts, r.target)
                THEN [posts EXCEPT ![r.target].votes = r.seen.vote_count]
                ELSE posts
    /\ Advance(r, "reload", NoRow)
    /\ UNCHANGED <<variant, now, users, next_user, products, next_item, votes, last>>

\* SQLAlchemyPostRepository.update_votes, line 99: Post.from_orm(post_query
\* .first()); then the return of VoteService.vote_post, mapped by the use
\* case.
vote_post_reload(r) ==
    /\ variant = "layered"
    /\ At(r, "vote_post", "reload")
    /\ Dequeue(r)
    /\ IF ~Exists(posts, r.target) \/ Post_from_orm(r.target) = ValidationError
       THEN last' = Raised("vote_post", r.caller, r.target, r.arg.dir,
                           "ValidationError")
       ELSE last' = Response("vote_post", r.caller, r.target, r.arg.dir,
                             vote_use_case_status(r.arg.dir,
                                                  vote_post_result(r.arg.dir)),
                             {})
    /\ UNCHANGED <<variant, now, users, next_user, products, posts, next_item, votes>>

\* ------------------------------------------------------- authentication
\* A bearer token: the payload that was signed, and whether its signature
\* verifies under settings.secret_key.  A payload is a record that may lack
\* the user_id claim.
Token(payload, signed) == [payload |-> payload, signed |-> signed]
JWTError == [error |-> "JWTError"]

\* jose.jwt.encode(to_encode, settings.secret_key, algorithm).
jwt_encode(to_encode) == Token(to_encode, TRUE)

\* jose.jwt.decode(token, settings.secret_key, algorithms) at a given time:
\* JWTError for a token whose signature does not verify and for one whose
\* exp is earlier than that time (ExpiredSignatureError is raised when
\* exp < now), the claims otherwise.  A token is still decoded at the time
\* of its exp.
jwt_decode(token, time) ==
    IF token.signed /\ ~(token.payload.exp < time)
    THEN token.payload ELSE JWTError

\* AuthService.create_access_token (and oauth2.create_access_token).
create_access_token(data) ==
    jwt_encode([user_id |-> data.user_id,
                exp |-> now + access_token_expire_minutes])

\* Mutation: the payload read without verifying the signature or the expiry.
verify_token_unverified(token, time, us) ==
    IF "user_id" \notin DOMAIN token.payload THEN NoRow
    ELSE user_get_by_id(us, token.payload.user_id)

\* AuthService.verify_token against the users table us at a given time:
\* None (NoRow) for a token that does not decode or that carries no
\* user_id, and what get_by_id returns or raises otherwise (JWTError alone
\* is caught).
verify_token_at(token, time, us) ==
    LET payload == jwt_decode(token, time) IN
    IF payload = JWTError THEN NoRow
    ELSE IF "user_id" \notin DOMAIN payload THEN NoRow
    ELSE user_get_by_id(us, payload.user_id)

verify_token(token) == verify_token_at(token, now, users)

\* oauth2.get_current_user against the users table us at a given time: the
\* id of the current user row, or 0 when the token is refused (401).
oauth2_verify_at(token, time, us) ==
    IF ~(token.signed /\ token.payload.exp > time) THEN 0
    ELSE IF "user_id" \notin DOMAIN token.payload THEN 0
    ELSE IF Exists(us, token.payload.user_id) THEN token.payload.user_id ELSE 0

\* The answer to a request whose token was refused.
Unauthenticated(op, token) ==
    [Response(op, 0, 0, NULL, 401, {}) EXCEPT
        !.detail = "Could not validate credentials", !.token = token]

\* flat: routers/auth.py login.  Line 18 builds its filter from
\* models.User.username and raises before a statement is sent.
login(username, password) ==
    /\ variant = "flat"
    /\ UserAttribute("username") = AttributeError
    /\ last' = Raised("login", 0, 0, NULL, AttributeError)
    /\ UNCHANGED <<variant, now, users, next_user, products, posts, next_item,
                   votes, reqs>>

\* layered: AuthUseCases.authenticate_user.  get_by_username is the first
\* ORM use of the request; the repository returns the User entity, and the
\* use case reads user.hashed_password from it.
authenticate_user(username, password) ==
    LET found == {u \in UserIds : Exists(users, u) /\ users[u].username = username} IN
    IF configure_mappers = InvalidRequestError
    THEN [result |-> InvalidRequestError.error]
    ELSE IF found = {} THEN [result |-> "none"]
    ELSE LET user == UserEntity(users, CHOOSE u \in found : TRUE) IN
         IF "hashed_password" \notin DOMAIN user
         THEN [result |-> AttributeError]
         ELSE IF ~verify_password(password, user.hashed_password)
         THEN [result |-> "none"]
         ELSE [result |-> "user", id |-> user.id]

\* layered: presentation/router.py login: one SELECT.
auth_login(username, password) ==
    /\ variant = "layered"
    /\ LET user == authenticate_user(username, password) IN
       IF user.result \in {InvalidRequestError.error, AttributeError}
       THEN last' = Raised("login", 0, 0, NULL, user.result)
       ELSE IF user.result = "none"
       THEN last' = [Response("login", 0, 0, NULL, 401, {}) EXCEPT
                        !.detail = "Incorrect username or password"]
       ELSE last' = Response("login", user.id, 0, NULL, 200,
                             {create_access_token([user_id |-> user.id])})
    /\ UNCHANGED <<variant, now, users, next_user, products, posts, next_item, votes, reqs>>

\* layered: get_current_user as the dependency of a protected handler: a
\* refused token is answered 401 and an exception of verify_token 500,
\* before the handler runs (u = 0); otherwise the handler runs for the user
\* u the token resolved to.
Depends_get_current_user(op, token, u) ==
    /\ variant = "layered"
    /\ LET user == verify_token(token) IN
       IF user = NoRow
       THEN /\ u = 0
            /\ last' = Unauthenticated(op, token)
            /\ UNCHANGED <<variant, now, users, next_user, products, posts,
                           next_item, votes, reqs>>
       ELSE IF user = InvalidRequestError
       THEN /\ u = 0
            /\ last' = [Raised(op, 0, 0, NULL, InvalidRequestError.error)
                           EXCEPT !.token = token]
            /\ UNCHANGED <<variant, now, users, next_user, products, posts,
                           next_item, votes, reqs>>
       ELSE u = user.id

\* flat: oauth2.get_current_user as the dependency of a protected handler.
Depends_oauth2_get_current_user(op, token, u) ==
    /\ variant = "flat"
    /\ u = oauth2_verify_at(token, now, users)
    /\ u = 0 =>
          /\ last' = Unauthenticated(op, token)
          /\ UNCHANGED <<variant, now, users, next_user, products, posts,
                         next_item, votes, reqs>>

\* The callers a dependency hands to its handler; 0 stands for none.
Callers == 0..MaxUserId

\* The clock advances.
tick ==
    /\ now < MaxTime
    /\ now' = now + 1
    /\ UNCHANGED <<variant, users, next_user, products, posts, next_item, votes, reqs, last>>

\* ---------------------------------------------------------------- system
Usernames == {"ram", "sita"}
\* The password each person chose; a login may offer any of them.
PasswordFor(name) == <<"secret", name>>
Passwords == {PasswordFor(name) : name \in Usernames}
Emails == {"ram@pasal.np", "sita@pasal.np"}
UsernameOf == <<"ram", "sita", "hari", "gita">>
EmailOf == <<"ram@pasal.np", "sita@pasal.np", "hari@pasal.np", "gita@pasal.np">>

\* The UserCreate bodies a client sends to register_user.
RegisterBodies ==
    {[username |-> name, email |-> email, password |-> PasswordFor(name)] :
        name \in Usernames, email \in Emails}
\* The bodies a client sends to the flat create_user and create_admin: the
\* declared fields alone, or the flags too.
UserCreateBodies ==
    {[username |-> name, password |-> PasswordFor(name)] : name \in Usernames}
    \cup {[username |-> name, password |-> PasswordFor(name),
           approved |-> TRUE, admin |-> TRUE] : name \in Usernames}
\* The UserPatch bodies (approved, admin).
UserPatchBodies == [approved : BOOLEAN, admin : BOOLEAN]
\* The ProductCreate bodies a client sends (name, price, is_available).
ProductBodies ==
    { [name |-> "tea", price |-> 10, is_available |-> "false"],
      [name |-> "rice", price |-> 20, is_available |-> NULL] }
\* PostCreate and PostUpdate bodies (title, content, published); a
\* PostUpdate may leave published out or set it to null.
PostCreateBodies ==
    { [title |-> "momo", content |-> "fresh", published |-> "true"] }
PostUpdateBodies ==
    { [title |-> "chiya", content |-> "hot", published |-> UNSET],
      [title |-> "momo", content |-> "fresh", published |-> "false"],
      [title |-> "sel", content |-> "sweet", published |-> NULL] }

NoResponse == Response("none", 0, 0, NULL, 0, {})

\* The names a login may offer: the usernames of the registered users and
\* one more, and the users' email addresses.
LoginNames ==
    {UsernameOf[i] : i \in 1..(MaxUserId + 1)} \cup {EmailOf[i] : i \in UserIds}
\* The tokens a request may bear: any payload, with or without the user_id
\* claim, with a signature that verifies or not.
ExpTimes == 1..MaxTime
Payloads == [user_id : UserIds, exp : ExpTimes] \cup [exp : ExpTimes]
Tokens == {Token(payload, signed) : payload \in Payloads, signed \in BOOLEAN}

\* The users table at the start.  flat: one row per id, written to the
\* table directly (no handler of the flat application inserts a user): the
\* row of user 1 with both flags set, the others with the server defaults
\* of models.User.approved and models.User.admin.  layered: the rows
\* register_user inserted for each person.
RegisteredUsers(v) ==
    [u \in UserIds |->
        IF v = "flat"
        THEN [email |-> EmailOf[u], password |-> <<"hash", UsernameOf[u]>>,
              approved |-> (u = 1), admin |-> (u = 1)]
        ELSE [username |-> UsernameOf[u], email |-> EmailOf[u],
              password |-> get_password_hash(PasswordFor(UsernameOf[u]))]]

\* A deployment: the flat application on a database that holds its users,
\* or the layered application on an empty database.
Init ==
    /\ variant \in {"flat", "layered"}
    /\ IF variant = "flat"
       THEN users = RegisteredUsers(variant) /\ next_user = MaxUserId + 1
       ELSE users = [u \in UserIds |-> NoRow] /\ next_user = 1
    /\ products = [p \in ItemIds |-> NoRow]
    /\ posts = [p \in ItemIds |-> NoRow]
    /\ next_item = 1
    /\ votes = EmptyBag
    /\ reqs = EmptyBag
    /\ now = 0
    /\ last = NoResponse

\* The server takes a request while fewer than cap are in flight, and a
\* request of the handlers ops while fewer than cap of those are.
Admit(cap) == BagCardinality(reqs) < cap
AdmitOf(ops, cap) == InFlightOf(ops) < cap

RegistrationsNext ==
    \/ \E body \in UserCreateBodies : create_user(UserCreate(body))
    \/ \E body \in UserCreateBodies : create_admin(AdminCreate(body))

UsersBegin ==
    \/ \E u \in UserIds : get_users_begin(u)
    \/ \E u, id \in UserIds, body \in UserPatchBodies : update_user_begin(u, id, body)
    \/ \E u, id \in UserIds : delete_user_begin(u, id)

DeleteUserSteps ==
    \/ \E r \in InFlight : delete_user_lookup(r)
    \/ \E r \in InFlight : delete_user_delete(r)

UsersSteps ==
    \/ \E r \in InFlight : get_users_select(r)
    \/ \E r \in InFlight : update_user_lookup(r)
    \/ \E r \in InFlight : update_user_update(r)
    \/ \E r \in InFlight : update_user_reload(r)
    \/ DeleteUserSteps

ProductsBegin ==
    \/ \E u \in UserIds, body \in ProductBodies : post_product_begin(u, body)
    \/ \E u \in UserIds, id \in ItemIds : delete_product_begin(u, id)
    \/ \E u \in UserIds, id \in ItemIds, body \in ProductBodies :
          update_product_begin(u, id, body)

PostProductSteps ==
    \/ \E r \in InFlight : post_product_insert(r)
    \/ \E r \in InFlight : post_product_refresh(r)
    \/ \E r \in InFlight : post_product_serialize(r)

DeleteProductSteps ==
    \/ \E r \in InFlight : delete_product_lookup(r)
    \/ \E r \in InFlight : delete_product_delete(r)

UpdateProductSteps ==
    \/ \E r \in InFlight : update_product_lookup(r)
    \/ \E r \in InFlight : update_product_update(r)
    \/ \E r \in InFlight : update_product_reload(r)
    \/ \E r \in InFlight : update_product_serialize(r)

ProductsSteps == PostProductSteps \/ DeleteProductSteps \/ UpdateProductSteps

GetProductSteps ==
    \/ \E r \in InFlight : get_product_serialize(r)
    \/ \E r \in InFlight : get_products_serialize(r)

GetProductsRequest ==
    \E limit \in {0, 1, 20}, skip \in {0, 1}, search \in SearchTerms :
        get_products(limit, skip, search)

VoteBegin ==
    \E u \in UserIds, p \in ItemIds, d \in {0, 1} : vote_begin(u, p, d)

VoteSteps ==
    \/ \E r \in InFlight : vote_product(r)
    \/ \E r \in InFlight : vote_lookup(r)
    \/ \E r \in InFlight : vote_insert(r)
    \/ \E r \in InFlight : vote_delete(r)

RegisterSteps ==
    \/ \E r \in InFlight : register_user_username(r)
    \/ \E r \in InFlight : user_repository_create(r)
    \/ \E r \in InFlight : user_repository_refresh(r)

CreatePostSteps ==
    \/ \E r \in InFlight : create_post_insert(r)
    \/ \E r \in InFlight : create_post_refresh(r)

UpdatePostSteps ==
    \/ \E r \in InFlight : update_post_lookup(r)
    \/ \E r \in InFlight : update_post_update(r)
    \/ \E r \in InFlight : update_post_reload(r)

DeletePostSteps ==
    \/ \E r \in InFlight : delete_post_lookup(r)
    \/ \E r \in InFlight : delete_post_delete(r)

PostsSteps == CreatePostSteps \/ UpdatePostSteps \/ DeletePostSteps

\* The statements of VoteService.vote_post after get_post.
VoteServiceSteps ==
    \/ \E r \in InFlight : vote_post_lookup(r)
    \/ \E r \in InFlight : vote_post_create(r)
    \/ \E r \in InFlight : vote_post_refresh(r)
    \/ \E r \in InFlight : vote_post_delete(r)
    \/ \E r \in InFlight : vote_post_remove(r)
    \/ \E r \in InFlight : vote_post_count(r)
    \/ \E r \in InFlight : vote_post_update(r)
    \/ \E r \in InFlight : vote_post_write(r)
    \/ \E r \in InFlight : vote_post_reload(r)

VotePostSteps == \E r \in InFlight : vote_post_get_post(r)

LoginNext ==
    \/ \E name \in LoginNames, password \in Passwords : login(name, password)
    \/ \E name \in LoginNames, password \in Passwords : auth_login(name, password)

\* A request to a protected handler of the layered routers that bears the
\* token t: the dependency, then the handler for the user it resolved.
OnePostBody == CHOOSE b \in PostCreateBodies : TRUE
CreatePostRequest(t) ==
    \E u \in Callers :
        /\ Depends_get_current_user("create_post", t, u)
        /\ u # 0 => create_post_begin(u, OnePostBody)
UpdatePostRequest(t, id, body) ==
    \E u \in Callers :
        /\ Depends_get_current_user("update_post", t, u)
        /\ u # 0 => update_post_begin(u, id, body)
DeletePostRequest(t, id) ==
    \E u \in Callers :
        /\ Depends_get_current_user("delete_post", t, u)
        /\ u # 0 => delete_post_begin(u, id)
VotePostRequest(t, p, d) ==
    \E u \in Callers :
        /\ Depends_get_current_user("vote_post", t, u)
        /\ u # 0 => vote_post_begin(u, p, d)

LayeredRequests ==
    \/ \E t \in Tokens : CreatePostRequest(t)
    \/ \E t \in Tokens, id \in ItemIds, body \in PostUpdateBodies :
          UpdatePostRequest(t, id, body)
    \/ \E t \in Tokens, id \in ItemIds : DeletePostRequest(t, id)
    \/ \E t \in Tokens, p \in ItemIds, d \in {0, 1, 2} : VotePostRequest(t, p, d)

Next ==
    \/ RegistrationsNext \/ LoginNext \/ tick
    \/ Admit(MaxInFlight) /\ (UsersBegin \/ ProductsBegin \/ VoteBegin)
    \/ UsersSteps \/ ProductsSteps \/ VoteSteps
    \/ Admit(MaxInFlight) /\ (\E id \in ItemIds : get_product(id))
    \/ Admit(MaxInFlight) /\ GetProductsRequest
    \/ GetProductSteps
    \/ Admit(MaxInFlight) /\ (\E body \in RegisterBodies : register_user(body))
    \/ Admit(MaxInFlight) /\ LayeredRequests
    \/ RegisterSteps \/ PostsSteps \/ VotePostSteps \/ VoteServiceSteps
    \/ \E id \in ItemIds : get_post(id)

Spec == Init /\ [][Next]_vars

\* ------------------------------------------------------- specifications
InitAdmin == Init /\ variant = "flat"

\* The flat products router, requests interleaving, on a database that
\* holds the users.
ProductsRouterNext ==
    \/ Admit(MaxInFlight) /\ ProductsBegin
    \/ ProductsSteps
SpecProducts == InitAdmin /\ [][ProductsRouterNext]_vars

\* The flat users router, one request at a time.
UsersRouterNext ==
    \/ RegistrationsNext
    \/ Admit(1) /\ UsersBegin
    \/ UsersSteps
SpecUsers == InitAdmin /\ [][UsersRouterNext]_vars

\* The handlers of the flat routers that look a target up behind a
\* capability test, and post_product, one request at a time.  A patch sets
\* both flags or clears both.
OneProductBody == CHOOSE b \in ProductBodies : b.is_available # NULL
GrantBodies == {[approved |-> b, admin |-> b] : b \in BOOLEAN}
AdminNext ==
    \/ Admit(1) /\ (\E u, id \in UserIds, body \in GrantBodies :
                        update_user_begin(u, id, body))
    \/ Admit(1) /\ (\E u, id \in UserIds : delete_user_begin(u, id))
    \/ \E r \in InFlight : update_user_lookup(r)
    \/ \E r \in InFlight : update_user_update(r)
    \/ \E r \in InFlight : update_user_reload(r)
    \/ DeleteUserSteps
    \/ Admit(1) /\ (\E u \in UserIds : post_product_begin(u, OneProductBody))
    \/ Admit(1) /\ (\E u \in UserIds, id \in ItemIds : delete_product_begin(u, id))
    \/ Admit(1) /\ (\E u \in UserIds, id \in ItemIds :
                        update_product_begin(u, id, OneProductBody))
    \/ ProductsSteps
SpecAdmin == InitAdmin /\ [][AdminNext]_vars

\* The flat registrations and update_user, requests interleaving.
GrantsNext ==
    \/ RegistrationsNext
    \/ Admit(MaxInFlight) /\ (\E u, id \in UserIds, body \in GrantBodies :
                                 update_user_begin(u, id, body))
    \/ \E r \in InFlight : update_user_lookup(r)
    \/ \E r \in InFlight : update_user_update(r)
    \/ \E r \in InFlight : update_user_reload(r)
SpecGrants == InitAdmin /\ [][GrantsNext]_vars

\* A database that holds the users of either application and nothing else.
\* (No request of the layered application inserts a user; its users table
\* holds the rows of RegisteredUsers, written to it directly.)
InitItems ==
    /\ variant \in {"flat", "layered"}
    /\ users = RegisteredUsers(variant)
    /\ next_user = MaxUserId + 1
    /\ products = [p \in ItemIds |-> NoRow]
    /\ posts = [p \in ItemIds |-> NoRow]
    /\ next_item = 1
    /\ votes = EmptyBag
    /\ reqs = EmptyBag
    /\ now = 0
    /\ last = NoResponse

VoteOps == {"vote", "vote_post"}

\* The creation and the deletion of products.
ItemsBegin ==
    \/ \E u \in UserIds : post_product_begin(u, OneProductBody)
    \/ \E u \in UserIds, id \in ItemIds : delete_product_begin(u, id)
ItemsSteps == PostProductSteps \/ DeleteProductSteps

\* The requests to the layered routers that name an item, bearing any
\* token, and get_post.
LayeredItemRequests ==
    \/ \E t \in Tokens, p \in ItemIds, d \in {0, 1} : VotePostRequest(t, p, d)
    \/ \E t \in Tokens : CreatePostRequest(t)
    \/ \E t \in Tokens, id \in ItemIds : DeletePostRequest(t, id)
    \/ \E id \in ItemIds : get_post(id)

\* The row of a post as create_post stored it at time 0, its votes counter
\* counted up by a given number.
SeededPost(owner, count) ==
    [PostRow(OnePostBody, owner, 0) EXCEPT !.votes = @ + count]

\* The layered application on a database that holds, besides the users and
\* the posts of one of them under some item ids, Vote rows of some users on
\* every post, with the posts' counters at the number of their rows.  No request
\* of the layered application writes a row; these were written to the
\* tables directly.
InitLedger ==
    /\ variant = "layered"
    /\ users = RegisteredUsers(variant)
    /\ next_user = MaxUserId + 1
    /\ products = [p \in ItemIds |-> NoRow]
    /\ next_item = MaxItemId + 1
    /\ reqs = EmptyBag
    /\ now = 0
    /\ last = NoResponse
    /\ \E owner \in UserIds, voters \in SUBSET UserIds, held \in SUBSET ItemIds :
          /\ votes = SetToBag({<<u, p>> : u \in voters, p \in held})
          /\ posts = [p \in ItemIds |->
                         IF p \in held
                         THEN SeededPost(owner, Cardinality(voters)) ELSE NoRow]

\* Either application on a database that holds its users: the flat one
\* without products, the layered one with posts and Vote rows.
InitSeq == (InitItems /\ variant = "flat") \/ InitLedger

\* Votes one at a time, while items are created, deleted and read.
SeqNext ==
    \/ Admit(MaxInFlight) /\ AdmitOf(VoteOps, 1) /\ VoteBegin
    \/ VoteSteps
    \/ Admit(MaxInFlight) /\ ItemsBegin
    \/ ItemsSteps
    \/ Admit(MaxInFlight) /\ AdmitOf({"get_product", "get_products"}, 1)
          /\ (\E id \in ItemIds : get_product(id))
    \/ Admit(MaxInFlight) /\ AdmitOf({"get_product", "get_products"}, 1)
          /\ GetProductsRequest
    \/ GetProductSteps
    \/ LayeredItemRequests
SpecSeq == InitSeq /\ [][SeqNext]_vars

\* Votes interleaving, while items are created and deleted.
VoteNext ==
    \/ Admit(MaxInFlight) /\ VoteBegin
    \/ VoteSteps
    \/ AdmitOf({"post_product", "delete_product"}, 1)
          /\ Admit(MaxInFlight) /\ ItemsBegin
    \/ ItemsSteps
    \/ LayeredItemRequests
SpecVote == InitSeq /\ [][VoteNext]_vars

\* The layered vote router and get_post, requests bearing any token, and
\* the clock.
LedgerNext ==
    \/ \E t \in Tokens, p \in ItemIds, d \in {0, 1, 2} : VotePostRequest(t, p, d)
    \/ \E id \in ItemIds : get_post(id)
    \/ tick
SpecLedger == InitLedger /\ [][LedgerNext]_vars

\* The layered posts router, requests bearing any token, and the clock.
PostsRouterNext ==
    \/ \E t \in Tokens : CreatePostRequest(t)
    \/ \E t \in Tokens, id \in ItemIds, body \in PostUpdateBodies :
          UpdatePostRequest(t, id, body)
    \/ \E t \in Tokens, id \in ItemIds : DeletePostRequest(t, id)
    \/ \E id \in ItemIds : get_post(id)
    \/ tick
SpecPosts == InitLedger /\ [][PostsRouterNext]_vars

\* The vote handlers alone, one request at a time, on a database with one
\* item more than the item bound, each posted by user 1 at time 0; in the
\* flat variant each is up-voted once by each of some users.
FrameItems == 1..(MaxItemId + 1)
InitFrame ==
    /\ variant \in {"flat", "layered"}
    /\ users = RegisteredUsers(variant)
    /\ next_user = MaxUserId + 1
    /\ next_item = MaxItemId + 2
    /\ reqs = EmptyBag
    /\ now = 0
    /\ last = NoResponse
    /\ IF variant = "flat"
       THEN /\ products = [p \in FrameItems |-> ProductRow(OneProductBody, 1, 0)]
            /\ posts = [p \in FrameItems |-> NoRow]
            /\ \E voters \in SUBSET UserIds :
                  votes = SetToBag({<<u, p>> : u \in voters, p \in FrameItems})
       ELSE /\ products = [p \in FrameItems |-> NoRow]
            /\ posts = [p \in FrameItems |-> SeededPost(1, 0)]
            /\ votes = EmptyBag
FrameNext ==
    \/ \E u \in UserIds, p \in FrameItems, d \in {0, 1} :
          Admit(1) /\ vote_begin(u, p, d)
    \/ VoteSteps
    \/ \E t \in Tokens, p \in FrameItems, d \in {0, 1} : VotePostRequest(t, p, d)
SpecFrame == InitFrame /\ [][FrameNext]_vars

\* The flat vote handler, requests interleaving, while products are posted
\* and deleted and users are deleted.
CascadeNext ==
    \/ Admit(MaxInFlight) /\ VoteBegin
    \/ VoteSteps
    \/ Admit(MaxInFlight) /\ (\E u \in UserIds : post_product_begin(u, OneProductBody))
    \/ Admit(MaxInFlight) /\ (\E u \in UserIds, id \in ItemIds : delete_product_begin(u, id))
    \/ Admit(MaxInFlight) /\ (\E u, id \in UserIds : delete_user_begin(u, id))
    \/ PostProductSteps
    \/ DeleteProductSteps
    \/ DeleteUserSteps
SpecCascade == InitAdmin /\ [][CascadeNext]_vars

\* The update handlers, one request at a time, and the clock, on a
\* database with one item more than the item bound.  Each item was posted
\* at time 0 by one of the users (post_product of the body that leaves
\* is_available to its default, create_post); in the flat variant each is
\* up-voted once by each of some users.
DefaultsBody == CHOOSE b \in ProductBodies : b.is_available = NULL
InitUpdate ==
    /\ variant \in {"flat", "layered"}
    /\ users = RegisteredUsers(variant)
    /\ next_user = MaxUserId + 1
    /\ next_item = MaxItemId + 2
    /\ reqs = EmptyBag
    /\ now = 0
    /\ last = NoResponse
    /\ \E owner \in UserIds :
          IF variant = "flat"
          THEN /\ products = [p \in FrameItems |-> ProductRow(DefaultsBody, owner, 0)]
               /\ posts = [p \in FrameItems |-> NoRow]
               /\ \E voters \in SUBSET UserIds :
                     votes = SetToBag({<<u, p>> : u \in voters, p \in FrameItems})
          ELSE /\ products = [p \in FrameItems |-> NoRow]
               /\ posts = [p \in FrameItems |-> SeededPost(owner, 0)]
               /\ votes = EmptyBag
UpdateNext ==
    \/ \E u \in UserIds, id \in FrameItems, body \in ProductBodies :
          Admit(1) /\ update_product_begin(u, id, body)
    \/ UpdateProductSteps
    \/ \E t \in Tokens, id \in FrameItems, body \in PostUpdateBodies :
          UpdatePostRequest(t, id, body)
    \/ tick
SpecUpdate == InitUpdate /\ [][UpdateNext]_vars

\* The logins and the registrations of either application and the clock,
\* while the flat users are patched and deleted, one request at a time: each
\* application on a database that holds its users.
InitAuth == InitItems
AuthNext ==
    \/ LoginNext
    \/ RegistrationsNext
    \/ \E body \in RegisterBodies : register_user(body)
    \/ Admit(1) /\ (\E u, id \in UserIds, body \in GrantBodies :
                        update_user_begin(u, id, body))
    \/ Admit(1) /\ (\E u, id \in UserIds : delete_user_begin(u, id))
    \/ \E r \in InFlight : update_user_lookup(r)
    \/ \E r \in InFlight : update_user_update(r)
    \/ \E r \in InFlight : update_user_reload(r)
    \/ DeleteUserSteps
    \/ tick
SpecAuth == InitAuth /\ [][AuthNext]_vars

\* A request to the layered posts router that bears the token t.
BearerRequest(t) ==
    \/ CreatePostRequest(t)
    \/ \E id \in ItemIds : DeletePostRequest(t, id)

\* The layered application on a database that holds the rows of some of
\* the users: requests to the posts router that bear any token, and the
\* clock.
InitBearer ==
    /\ variant = "layered"
    /\ \E present \in SUBSET UserIds :
          users = [u \in UserIds |->
                      IF u \in present THEN RegisteredUsers(variant)[u] ELSE NoRow]
    /\ next_user = MaxUserId + 1
    /\ products = [p \in ItemIds |-> NoRow]
    /\ posts = [p \in ItemIds |-> NoRow]
    /\ next_item = 1
    /\ votes = EmptyBag
    /\ reqs = EmptyBag
    /\ now = 0
    /\ last = NoResponse
BearerNext ==
    \/ \E t \in Tokens : BearerRequest(t)
    \/ tick
SpecBearer == InitBearer /\ [][BearerNext]_vars

\* The registrations of either application, while the flat users are
\* patched and deleted, one request at a time.  The flat database holds its
\* users; the layered one the rows of the first people of RegisteredUsers,
\* with its sequence after the last of them.
InitReg ==
    /\ variant \in {"flat", "layered"}
    /\ IF variant = "flat"
       THEN users = RegisteredUsers(variant) /\ next_user = MaxUserId + 1
       ELSE \E n \in 0..MaxUserId :
               /\ users = [u \in UserIds |->
                              IF u <= n THEN RegisteredUsers(variant)[u] ELSE NoRow]
               /\ next_user = n + 1
    /\ products = [p \in ItemIds |-> NoRow]
    /\ posts = [p \in ItemIds |-> NoRow]
    /\ next_item = 1
    /\ votes = EmptyBag
    /\ reqs = EmptyBag
    /\ now = 0
    /\ last = NoResponse
RegNext ==
    \/ RegistrationsNext
    \/ \E body \in RegisterBodies : register_user(body)
    \/ Admit(1) /\ UsersBegin
    \/ UsersSteps
SpecReg == InitReg /\ [][RegNext]_vars

\* A token for each user, signed with the application's key before any
\* patch.  (The flat login raises before it issues one; the tokens are those
\* of a holder of the key.)
IssuedTokens ==
    {jwt_encode([user_id |-> u, exp |-> access_token_expire_minutes]) : u \in UserIds}

\* A request that writes an item, bearing the token t, for the caller u.
ItemWrite(t, u) ==
    \/ /\ Depends_oauth2_get_current_user("post_product", t, u)
       /\ u # 0 => post_product_begin(u, OneProductBody)
    \/ \E id \in ItemIds :
          /\ Depends_oauth2_get_current_user("delete_product", t, u)
          /\ u # 0 => delete_product_begin(u, id)
    \/ \E id \in ItemIds :
          /\ Depends_oauth2_get_current_user("update_product", t, u)
          /\ u # 0 => update_product_begin(u, id, OneProductBody)

\* A request to list or delete users, bearing the token t, for the caller u.
UserAdministration(t, u) ==
    \/ /\ Depends_oauth2_get_current_user("get_users", t, u)
       /\ u # 0 => get_users_begin(u)
    \/ \E id \in UserIds :
          /\ Depends_oauth2_get_current_user("delete_user", t, u)
          /\ u # 0 => delete_user_begin(u, id)

\* A request to patch a user, bearing the token t, for the caller u.
UserPatchRequest(t, u) ==
    \E id \in UserIds, body \in UserPatchBodies :
        /\ Depends_oauth2_get_current_user("update_user", t, u)
        /\ u # 0 => update_user_begin(u, id, body)

\* The flat routers called with those tokens, one request at a time, before
\* the tokens expire.
FlagsNext ==
    \/ Admit(1) /\ (\E t \in IssuedTokens, u \in Callers : ItemWrite(t, u))
    \/ Admit(1) /\ (\E t \in IssuedTokens, u \in Callers : UserAdministration(t, u))
    \/ Admit(1) /\ (\E t \in IssuedTokens, u \in Callers : UserPatchRequest(t, u))
    \/ UsersSteps
    \/ ProductsSteps
SpecFlags == InitAdmin /\ [][FlagsNext]_vars

\* ---------------------------------------------------------------- claims
ItemExists(p) == Exists(products, p) \/ Exists(posts, p)

\* A step of the request r: r leaves the state it is in.  (At most one
\* request takes a step at a time.)
StepOf(r) == r \in InFlight /\ CopiesIn(r, reqs') < CopiesIn(r, reqs)
\* The step of r that answers the caller: r leaves and nothing takes its place.
Completes(r) == StepOf(r) /\ BagCardinality(reqs') < BagCardinality(reqs)

\* The token t is the correctly signed, unexpired token of the user u, whose
\* row exists.
Authenticates(t, u) ==
    /\ t.signed /\ t.payload.exp > now
    /\ "user_id" \in DOMAIN t.payload
    /\ t.payload.user_id = u
    /\ Exists(users, u)

\* C8: in the flat variant post_product, update_product and delete_product
\* called by a user whose approved flag is false fail with Forbidden (403)
\* before a statement is sent, and leave the products table unchanged,
\* whether or not the target exists.
ApprovalGate ==
    [][\A u \in UserIds, id \in ItemIds, body \in ProductBodies :
         (/\ Exists(users, u) /\ ~users[u].approved
          /\ \/ post_product_begin(u, body)
             \/ update_product_begin(u, id, body)
             \/ delete_product_begin(u, id))
         => /\ last'.status = 403
            /\ last'.op \in {"post_product", "update_product", "delete_product"}
            /\ last'.caller = u
            /\ reqs' = reqs
            /\ products' = products /\ votes' = votes]_vars

\* An unapproved user was refused the deletion of a product that exists.
ApprovalGateWitness ==
    /\ last.op = "delete_product" /\ last.status = 403
    /\ Exists(products, last.target)
    /\ Exists(users, last.caller) /\ ~users[last.caller].approved
    /\ reqs = EmptyBag

\* C9: get_users, update_user and delete_user called by a user whose admin
\* flag is false fail with Forbidden (403), return no user data and leave
\* every user record unchanged: get_users and delete_user before a statement
\* is sent, update_user after the SELECT of its target.
AdminGate ==
    [][/\ \A u \in UserIds :
            (/\ Exists(users, u) /\ ~users[u].admin
             /\ \/ get_users_begin(u)
                \/ \E id \in UserIds : delete_user_begin(u, id))
            => /\ last'.status = 403
               /\ last'.op \in {"get_users", "delete_user"}
               /\ last'.caller = u /\ last'.data = {}
               /\ reqs' = reqs
               /\ users' = users /\ products' = products /\ votes' = votes
       /\ \A u, id \in UserIds, body \in UserPatchBodies :
            (/\ Exists(users, u) /\ ~users[u].admin
             /\ update_user_begin(u, id, body))
            => /\ BagToSet(reqs') \ InFlight
                    \subseteq {q \in BagToSet(reqs') : ~q.seen.admin}
               /\ last' = last
               /\ users' = users /\ products' = products /\ votes' = votes
       /\ \A r \in InFlight :
            (r.op = "update_user" /\ StepOf(r) /\ ~r.seen.admin)
            => /\ last' = Response("update_user", r.caller, r.target, NULL, 403, {})
               /\ reqs' = reqs (-) SetToBag({r})
               /\ users' = users /\ products' = products /\ votes' = votes]_vars

\* A non-admin was refused the patch of a user that exists.
AdminGateWitness ==
    /\ last.op = "update_user" /\ last.status = 403 /\ last.data = {}
    /\ Exists(users, last.target) /\ last.target # last.caller
    /\ Exists(users, last.caller) /\ ~users[last.caller].admin

\* C20: in the flat update_product, delete_product, update_user and
\* delete_user, a caller who lacks the capability (approved for items, admin
\* for users) is answered Forbidden (403) with the same response whether or
\* not the target id exists, and NotFound (404) is answered only by the
\* lookup of a request that passed the capability test.
ErrorPrecedence ==
    [][/\ \A u \in UserIds, body \in ProductBodies, id \in ItemIds :
            (/\ Exists(users, u) /\ ~users[u].approved
             /\ update_product_begin(u, id, body) \/ delete_product_begin(u, id))
            => /\ last' \in {Response(op, u, id, NULL, 403, {}) :
                                op \in {"update_product", "delete_product"}}
               /\ reqs' = reqs
       /\ \A u, id \in UserIds :
            (/\ Exists(users, u) /\ ~users[u].admin
             /\ delete_user_begin(u, id))
            => /\ last' = Response("delete_user", u, id, NULL, 403, {})
               /\ reqs' = reqs
       /\ \A r \in InFlight :
            /\ (r.op = "update_user" /\ StepOf(r) /\ ~r.seen.admin)
               => last' = Response("update_user", r.caller, r.target, NULL, 403, {})
            /\ (/\ r.op \in {"update_product", "delete_product",
                             "update_user", "delete_user"}
                /\ Completes(r) /\ last'.status = 404)
               => /\ r.pc = "lookup"
                  /\ r.op = "update_user" => r.seen.admin
                  /\ r.op \in {"update_user", "delete_user"}
                        => ~Exists(users, r.target)
                  /\ r.op \in {"update_product", "delete_product"}
                        => ~Exists(products, r.target)]_vars

\* A caller without the admin flag was answered 403 for the patch of a user
\* id that names no row.
ErrorPrecedenceWitness ==
    /\ last.op = "update_user" /\ last.status = 403
    /\ ~Exists(users, last.target)
    /\ Exists(users, last.caller) /\ ~users[last.caller].admin
    /\ reqs = EmptyBag

\* The step of an update_user request that an admin made, which sets the
\* flag of user i.
AdminSets(i, flag) ==
    \E r \in InFlight :
        /\ r.op = "update_user" /\ r.pc = "update" /\ StepOf(r)
        /\ r.caller \in UserIds /\ r.seen.admin
        /\ r.target = i
        /\ r.arg[flag]

\* C21: in the flat variant a user record with admin == true comes into
\* existence, or a record's admin flag becomes true, only by the UPDATE of
\* an update_user request whose caller was authenticated and had the admin
\* flag when the request was made; no anonymous request (create_user,
\* create_admin) and no request of a non-admin produces an admin.
NoSelfGrantedAdmin ==
    [][/\ \A u, id \in UserIds, body \in UserPatchBodies :
            update_user_begin(u, id, body)
            => reqs' = reqs (+) SetToBag({Req("update_user", u, id, body, "lookup",
                                              [admin |-> users[u].admin])})
       /\ \A i \in UserIds :
            (/\ Exists(users', i) /\ users'[i].admin
             /\ ~(Exists(users, i) /\ users[i].admin))
            => AdminSets(i, "admin")
       /\ \A body \in UserCreateBodies :
            (create_user(UserCreate(body)) \/ create_admin(AdminCreate(body)))
            => users' = users /\ reqs' = reqs]_vars

\* A user who was not an admin at the start is one after an update_user
\* call was answered.
NoSelfGrantedAdminWitness ==
    /\ last.op = "update_user" /\ last.status = 202
    /\ \E i \in UserIds :
        /\ ~RegisteredUsers("flat")[i].admin
        /\ Exists(users, i) /\ users[i].admin
        /\ last.target = i

\* C22: the flat create_user creates no user record with approved or admin
\* set, whatever the request body contains (UserCreate keeps username and
\* password alone, and the handler inserts no row), and a flag of a record
\* that is false stays false until the UPDATE of an update_user call by an
\* admin sets it.
RegistrationGrantsNothing ==
    [][/\ \A body \in UserCreateBodies :
            /\ DOMAIN UserCreate(body) = {"username", "password"}
            /\ create_user(UserCreate(body))
               => \A i \in UserIds :
                     (Exists(users', i) /\ ~Exists(users, i))
                     => ~users'[i].approved /\ ~users'[i].admin
       /\ \A i \in UserIds :
            /\ (~Exists(users, i) /\ Exists(users', i))
               => ~users'[i].approved /\ ~users'[i].admin
            /\ (Exists(users, i) /\ Exists(users', i))
               => /\ (~users[i].approved /\ users'[i].approved)
                     => AdminSets(i, "approved")
                  /\ (~users[i].admin /\ users'[i].admin)
                     => AdminSets(i, "admin")]_vars

IsVoteResponse(resp) == resp.op \in VoteOps

\* C1: in every reachable state there is at most one Vote row per
\* (user, item) pair, in both variants, for every interleaving of vote
\* requests.
VoteUniqueness ==
    \A u \in UserIds, p \in ItemIds : VoteRows(u, p) <= 1

\* Two up-votes of one user on one product both passed the lookup; the
\* INSERT of the second was rejected and the pair has its single row.
VoteUniquenessWitness ==
    /\ variant = "flat"
    /\ last.op = "vote" /\ last.dir = 1
    /\ last.detail = "IntegrityError"
    /\ VoteRows(last.caller, last.target) = 1

\* C15: when the INSERT of an up-vote meets a row of the same user on the
\* same item, written after the request's lookup, the store rejects it and
\* the caller is answered Conflict (409).
RacingUpVoteConflict ==
    [][\A r \in InFlight :
         (/\ r.op \in VoteOps /\ r.pc \in {"insert", "create"} /\ StepOf(r)
          /\ VoteRows(r.caller, r.target) > 0)
         => /\ votes' = votes
            /\ IsVoteResponse(last') /\ last'.status = 409]_vars

\* C16: in the layered variant, whenever no vote request on a post is in
\* flight, the post's stored votes counter equals the number of Vote rows
\* for the post.
CounterSettles ==
    variant = "layered" =>
        \A p \in ItemIds :
            (/\ Exists(posts, p)
             /\ \A r \in InFlight : ~(r.op = "vote_post" /\ r.target = p))
            => posts[p].votes = ItemVoteRows(p)

\* C17: every vote call that is answered as a success changed the ledger in
\* the step that answered it: an up-vote inserted one row for (caller,
\* item), a down-vote deleted one.
NoSilentNoOp ==
    [][\A r \in InFlight :
         (/\ r.op \in VoteOps /\ Completes(r)
          /\ ItemExists(r.target)
          /\ last'.status \in {200, 201, 204})
         => VoteRowsIn(votes', r.caller, r.target)
               = VoteRows(r.caller, r.target)
                    + (IF r.arg.dir = 1 THEN 1 ELSE 0 - 1)]_vars

\* The count a read computes: when no vote request is in flight, the SELECT
\* of the flat get_product and get_products computes, for each product it
\* returns, the number of Vote rows that reference the product (zero for a
\* product without votes), and the votes counter of a layered post equals
\* the number of the post's Vote rows.
ReadComputesVoteCount ==
    [][/\ InFlightOf(VoteOps) = 0 =>
            \A p \in ItemIds :
                Exists(posts, p) => posts[p].votes = ItemVoteRows(p)
       /\ \A id \in ItemIds :
            (/\ InFlightOf(VoteOps) = 0
             /\ Exists(products, id)
             /\ get_product(id))
            => \E q \in BagToSet(reqs') :
                  /\ q.op = "get_product" /\ q.target = id
                  /\ q.seen.votes = ItemVoteRows(id)
                  /\ reqs' = reqs (+) SetToBag({q})
       /\ (InFlightOf(VoteOps) = 0 /\ GetProductsRequest) =>
            \A q \in BagToSet(reqs') :
                (q.op = "get_products" /\ reqs' # reqs) =>
                    \A x \in q.seen.results : x.votes = ItemVoteRows(x.id)]_vars

\* C2: after any sequence of completed up-votes and down-votes, the vote
\* count reported for an item equals the number of Vote rows that reference
\* it: a read of existing products (get_product, get_products) that
\* computed their counts while no vote request was in flight is answered 200
\* and reports, for each product, the count it computed, and the votes
\* counter of a layered post equals the number of the post's Vote rows.
VoteCountInvariant ==
    [][/\ InFlightOf(VoteOps) = 0 =>
            \A p \in ItemIds :
                Exists(posts, p) => posts[p].votes = ItemVoteRows(p)
       /\ \A r \in InFlight :
            (r.op = "get_product" /\ Completes(r))
            => /\ last'.status = 200
               /\ last'.data = {r.seen.votes}
       /\ \A r \in InFlight :
            (r.op = "get_products" /\ Completes(r))
            => /\ last'.status = 200
               /\ last'.data = {[id |-> x.id, votes |-> x.votes]
                                   : x \in r.seen.results}]_vars

\* The flat vote handler answers an up-vote on an existing product the
\* caller has a vote on with 409 and writes nothing.
FlatRedundantUpVote ==
    \A r \in InFlight :
        (/\ r.op = "vote" /\ Completes(r) /\ r.arg.dir = 1
         /\ Exists(products, r.target)
         /\ VoteRows(r.caller, r.target) > 0)
        => /\ last'.op = "vote" /\ last'.status = 409
           /\ last'.caller = r.caller /\ last'.target = r.target
           /\ votes' = votes
           /\ products' = products

\* The same of the layered vote_post, for a request that bears the token of
\* the user.
LayeredRedundantUpVote ==
    \A t \in Tokens, u \in UserIds, p \in ItemIds :
        (/\ Authenticates(t, u)
         /\ Exists(posts, p)
         /\ VoteRows(u, p) > 0
         /\ VotePostRequest(t, p, 1))
        => /\ last'.op = "vote_post" /\ last'.status = 409
           /\ votes' = votes
           /\ posts' = posts

\* C3: an up-vote by U on an existing item X on which U has a vote fails
\* with Conflict (409), inserts no Vote row and leaves X's vote count
\* unchanged, in the flat vote handler and in the layered vote_post.
RedundantUpVoteConflict ==
    [][FlatRedundantUpVote /\ LayeredRedundantUpVote]_vars

\* The flat handler alone answers it with 409.
RedundantUpVoteConflictFlat == [][FlatRedundantUpVote]_vars

\* The flat vote handler answers a down-vote on an existing product the
\* caller has a vote on with 201, deletes the row and lowers the count.
FlatEffectiveDownVote ==
    \A r \in InFlight :
        (/\ r.op = "vote" /\ Completes(r) /\ r.arg.dir = 0
         /\ Exists(products, r.target)
         /\ VoteRows(r.caller, r.target) = 1)
        => /\ last'.op = "vote" /\ last'.status \in {200, 201, 204}
           /\ VoteRowsIn(votes', r.caller, r.target) = 0
           /\ ProductVotes(votes', r.target) = ProductVotes(votes, r.target) - 1

\* The same of the layered vote_post, with the post's counter.
LayeredEffectiveDownVote ==
    \A t \in Tokens, u \in UserIds, p \in ItemIds :
        (/\ Authenticates(t, u)
         /\ Exists(posts, p)
         /\ VoteRows(u, p) = 1
         /\ VotePostRequest(t, p, 0))
        => /\ last'.op = "vote_post" /\ last'.status \in {200, 201, 204}
           /\ VoteRowsIn(votes', u, p) = 0
           /\ Exists(posts', p)
           /\ posts'[p].votes = posts[p].votes - 1

\* C4: a down-vote by U on an existing item X on which U has a vote is
\* reported to the caller as a success, deletes U's row for X and lowers X's
\* count by one, in the flat vote handler and in the layered vote_post.
EffectiveDownVoteSucceeds ==
    [][FlatEffectiveDownVote /\ LayeredEffectiveDownVote]_vars

\* The flat handler alone does so (201).
EffectiveDownVoteSucceedsFlat == [][FlatEffectiveDownVote]_vars

\* The flat vote handler answers a down-vote on an existing product the
\* caller has no vote on with 404 and writes nothing.
FlatRedundantDownVote ==
    \A r \in InFlight :
        (/\ r.op = "vote" /\ Completes(r) /\ r.arg.dir = 0
         /\ Exists(products, r.target)
         /\ VoteRows(r.caller, r.target) = 0)
        => /\ last'.op = "vote" /\ last'.status = 404
           /\ last'.caller = r.caller /\ last'.target = r.target
           /\ votes' = votes
           /\ products' = products

\* The same of the layered vote_post.
LayeredRedundantDownVote ==
    \A t \in Tokens, u \in UserIds, p \in ItemIds :
        (/\ Authenticates(t, u)
         /\ Exists(posts, p)
         /\ VoteRows(u, p) = 0
         /\ VotePostRequest(t, p, 0))
        => /\ last'.op = "vote_post" /\ last'.status = 404
           /\ votes' = votes
           /\ posts' = posts

\* C5: a down-vote by U on an existing item X on which U has no vote fails
\* with NotFound (404), deletes nothing and leaves every Vote row and every
\* vote count unchanged.
RedundantDownVoteNotFound ==
    [][FlatRedundantDownVote /\ LayeredRedundantDownVote]_vars

\* The flat handler alone answers it with 404.
RedundantDownVoteNotFoundFlat == [][FlatRedundantDownVote]_vars

\* The flat vote handler answers a vote on a product id that names no row
\* with 404 at the lookup of the product.
FlatVoteOnMissingItem ==
    \A r \in InFlight :
        (/\ r.op = "vote" /\ r.pc = "product" /\ StepOf(r)
         /\ ~Exists(products, r.target))
        => /\ last'.op = "vote" /\ last'.status = 404
           /\ last'.caller = r.caller /\ last'.target = r.target
           /\ reqs' = reqs (-) SetToBag({r})
           /\ votes' = votes

\* The same of the layered vote_post, for a request that bears the token of
\* a user.
LayeredVoteOnMissingItem ==
    \A t \in Tokens, u \in UserIds, p \in ItemIds, d \in {0, 1} :
        (/\ Authenticates(t, u)
         /\ ~Exists(posts, p)
         /\ VotePostRequest(t, p, d))
        => /\ last'.op = "vote_post" /\ last'.status = 404
           /\ votes' = votes

\* C6: a vote request, up or down, that names an item that does not exist
\* fails with NotFound (404) at the lookup of the item, before the vote
\* lookup, and leaves the vote ledger unchanged; it is never reported as
\* Conflict.
VoteOnMissingItemNotFound ==
    [][FlatVoteOnMissingItem /\ LayeredVoteOnMissingItem]_vars

\* The flat handler alone answers it with 404.
VoteOnMissingItemNotFoundFlat == [][FlatVoteOnMissingItem]_vars

\* C23: no step of a vote call by U on X inserts or deletes a Vote row
\* whose user is not U or whose item is not X, changes another item's vote
\* count, or creates, deletes or edits a user or an item's other fields,
\* whether the call succeeds or fails.
VoteFrame ==
    [][/\ \A r \in InFlight :
            (r.op = "vote" /\ StepOf(r))
            => /\ \A u \in UserIds, p \in FrameItems :
                    (u # r.caller \/ p # r.target)
                    => VoteRowsIn(votes', u, p) = VoteRows(u, p)
               /\ \A p \in FrameItems \ {r.target} :
                    ItemVoteRowsIn(votes', p) = ItemVoteRows(p)
               /\ users' = users /\ next_user' = next_user
               /\ products' = products /\ posts' = posts
               /\ next_item' = next_item
       /\ \A t \in Tokens, p \in FrameItems, d \in {0, 1} :
            VotePostRequest(t, p, d)
            => /\ votes' = votes
               /\ users' = users /\ next_user' = next_user
               /\ products' = products /\ next_item' = next_item
               /\ \/ posts' = posts
                  \/ /\ Exists(posts, p)
                     /\ posts' = [posts EXCEPT ![p].votes = posts'[p].votes]]_vars

\* A flat down-vote deleted the caller's row while another user's row on
\* the item, and the rows on the other items, are still there.
VoteFrameWitness ==
    /\ last.op = "vote" /\ last.dir = 0 /\ last.status = 201
    /\ VoteRows(last.caller, last.target) = 0
    /\ \E u \in UserIds \ {last.caller} : VoteRows(u, last.target) = 1
    /\ \E p \in FrameItems \ {last.target} : VoteRows(last.caller, p) = 1

\* C7: in every reachable state every Vote row references an existing user
\* and an existing item, and every item an existing owner: deleting an item
\* removes its votes, deleting a user removes the user's votes and items
\* (with those items' votes), also when a vote request interleaves with the
\* deletion of the item it targets.
ReferentialIntegrity ==
    /\ \A v \in BagToSet(votes) : Exists(users, v[1]) /\ ItemExists(v[2])
    /\ \A p \in ItemIds :
        /\ Exists(products, p) => Exists(users, products[p].user_id)
        /\ Exists(posts, p) => Exists(users, posts[p].owner_id)

\* An up-vote passed its lookups, the product was deleted before its INSERT
\* ran, and the store rejected the INSERT: no row references the product.
CascadeWitness ==
    /\ last.op = "vote" /\ last.dir = 1 /\ last.detail = "IntegrityError"
    /\ Exists(users, last.caller)
    /\ ~ItemExists(last.target)
    /\ votes = EmptyBag

\* C10: in the layered variant an update_post or delete_post on an
\* existing post, by an authenticated caller who is not its owner, fails
\* with Forbidden (403) and leaves the post and its votes unchanged; a
\* request to update_post or delete_post that changes or removes a post
\* bears the token of its owner, and touches no other post.
OwnershipGate ==
    [][\A t \in Tokens, id \in ItemIds, body \in PostUpdateBodies :
         (UpdatePostRequest(t, id, body) \/ DeletePostRequest(t, id))
         => /\ \A u \in UserIds :
                 (/\ Authenticates(t, u)
                  /\ Exists(posts, id)
                  /\ posts[id].owner_id # u)
                 => /\ last'.op \in {"update_post", "delete_post"}
                    /\ last'.status = 403
                    /\ posts' = posts /\ votes' = votes
            /\ posts' # posts
               => /\ Exists(posts, id)
                  /\ Authenticates(t, posts[id].owner_id)
                  /\ \A q \in ItemIds \ {id} : posts'[q] = posts[q]]_vars

\* The row the UPDATE of the update_product request r must leave in place
\* of row: the content fields of the request schema written, every other
\* column kept.
Updated(r, row) ==
    [row EXCEPT !.name = r.arg.name, !.price = r.arg.price,
                !.is_available = r.arg.is_available]

\* C24: the UPDATE of update_product (flat) writes the content fields of
\* the request schema and nothing else: the item's id, owner, created_at,
\* Vote rows and vote count are unchanged, and so is every other item, also
\* when the caller is not the owner; no other step of the request writes
\* anything.  A request to update_post (layered) changes nothing but, in
\* the post it names, the fields it set.
UpdateFrame ==
    [][/\ \A r \in InFlight :
            (r.op = "update_product" /\ StepOf(r))
            => /\ votes' = votes /\ users' = users /\ posts' = posts
               /\ next_item' = next_item /\ next_user' = next_user
               /\ \A q \in FrameItems \ {r.target} : products'[q] = products[q]
               /\ IF /\ r.pc = "update" /\ Exists(products, r.target)
                     /\ r.arg.is_available # NULL
                  THEN products'[r.target] = Updated(r, products[r.target])
                  ELSE products'[r.target] = products[r.target]
       /\ \A t \in Tokens, id \in FrameItems, body \in PostUpdateBodies :
            UpdatePostRequest(t, id, body)
            => /\ votes' = votes /\ users' = users /\ products' = products
               /\ next_item' = next_item /\ next_user' = next_user
               /\ \A q \in FrameItems \ {id} : posts'[q] = posts[q]
               /\ \/ posts'[id] = posts[id]
                  \/ /\ Exists(posts, id)
                     /\ posts'[id] = ApplyPostUpdate(posts[id], body)]_vars

\* The UPDATE of a product by a user who does not own it, later than the
\* product was created, is committed and the request answered: the product
\* has the name of the request, its owner, its creation time and its votes.
UpdateFrameWitness ==
    /\ last.op = "update_product" /\ last.detail = ResponseValidationError
    /\ Exists(products, last.target)
    /\ products[last.target].user_id # last.caller
    /\ products[last.target].created_at < now
    /\ products[last.target].name = "tea"
    /\ ItemVoteRows(last.target) >= 1

StoreUnchanged ==
    /\ users' = users /\ next_user' = next_user
    /\ products' = products /\ posts' = posts /\ next_item' = next_item
    /\ votes' = votes /\ reqs' = reqs

\* C11: for every registered user, a login with the user's login name and
\* correct password is answered with a token, and verifying that token at
\* any time before its expiry, while the user exists, resolves to the user
\* with the same id.
LoginVerifyRoundTrip ==
    [][\A u \in UserIds :
         (/\ Exists(users, u)
          /\ IF variant = "flat"
             THEN login(users[u].email, PasswordFor(UsernameOf[u]))
             ELSE auth_login(users[u].username, PasswordFor(users[u].username)))
         => /\ last'.status = 200
            /\ last'.data # {}
            /\ \A t \in last'.data : \A time \in 0..(t.payload.exp - 1) :
                 IF variant = "flat"
                 THEN oauth2_verify_at(t, time, users) = u
                 ELSE verify_token_at(t, time, users) = UserEntity(users, u)]_vars

\* The password p is the one stored for a user named n.  (No row of the
\* flat users table has a username.)
CredentialsMatch(n, p) ==
    /\ variant = "layered"
    /\ \E u \in UserIds :
          /\ Exists(users, u) /\ users[u].username = n
          /\ verify_password(p, users[u].password)

\* The answer each login handler gives for a username that has no row.
InvalidCredentials ==
    IF variant = "flat"
    THEN [status |-> 403, detail |-> "Invalid credentials"]
    ELSE [status |-> 401, detail |-> "Incorrect username or password"]

\* C14: a login that fails, for a username without a row or for an existing
\* username with a wrong password, is answered with the same status and
\* detail in both cases, issues no token and changes no state.
LoginFailureUniform ==
    [][\A n \in LoginNames, p \in Passwords :
         (/\ ~CredentialsMatch(n, p)
          /\ (login(n, p) \/ auth_login(n, p)))
         => /\ last'.status = InvalidCredentials.status
            /\ last'.detail = InvalidCredentials.detail
            /\ last'.data = {}
            /\ StoreUnchanged]_vars

\* A token that must be refused: its signature does not verify, its expiry
\* is not later than the current time, or it carries no user_id.
Refused(t) ==
    \/ ~t.signed
    \/ t.payload.exp <= now
    \/ "user_id" \notin DOMAIN t.payload

\* C12, as stated: a request bearing a token whose expiry is not later than
\* the current time, whose signature does not match or that carries no
\* user_id is answered 401, verify_token having failed, without reaching a
\* use case or changing the store.
TokenRejection ==
    [][\A t \in Tokens :
         (/\ Refused(t)
          /\ last'.op \in {"create_post", "delete_post"}
          /\ last'.token \in {t, NoRow}
          /\ BearerRequest(t))
         => /\ verify_token(t) = NoRow
            /\ last'.status = 401
            /\ last'.token = t
            /\ last'.data = {}
            /\ StoreUnchanged]_vars

\* A token that does not decode or names no user: its signature does not
\* verify, its expiry is earlier than the current time, or it carries no
\* user_id.
Undecodable(t) ==
    \/ ~t.signed
    \/ t.payload.exp < now
    \/ "user_id" \notin DOMAIN t.payload

\* C12, amended: verify_token fails on every token whose expiry is earlier
\* than the current time, whose signature does not match or that carries no
\* user_id, and a request bearing such a token is answered 401 without
\* reaching a use case or changing the store.
ExpiredTokenRejection ==
    [][\A t \in Tokens :
         Undecodable(t) =>
            /\ verify_token(t) = NoRow
            /\ (last'.op \in {"create_post", "delete_post"}
                  /\ last'.token \in {t, NoRow} /\ BearerRequest(t)) =>
                  /\ last'.status = 401
                  /\ last'.token = t
                  /\ last'.data = {}
                  /\ StoreUnchanged]_vars

\* A correctly signed token of an existing user was refused after its
\* expiry time.
ExpiredTokenRejectionWitness ==
    /\ variant = "layered"
    /\ last.status = 401 /\ last.token # NoRow
    /\ last.token.signed
    /\ "user_id" \in DOMAIN last.token.payload
    /\ Exists(users, last.token.payload.user_id)
    /\ last.token.payload.exp < now

\* A correctly signed, unexpired token whose user_id names no user row.
Stale(t) ==
    /\ t.signed /\ t.payload.exp > now
    /\ "user_id" \in DOMAIN t.payload
    /\ ~Exists(users, t.payload.user_id)

\* C13: a correctly signed, unexpired token whose user_id names no existing
\* user resolves to no user, and every request that bears it is answered
\* 401 and changes nothing, for as long as no such user exists.
StaleIdentity ==
    [][\A t \in Tokens :
         (Stale(t) /\ BearerRequest(t)) =>
            /\ verify_token(t) = NoRow
            /\ last'.status = 401
            /\ last'.token = t
            /\ StoreUnchanged]_vars

\* No two rows of the users table us share a value of a unique column:
\* email in the flat variant, username and email in the layered one.
UsersUniqueIn(us) ==
    \A u, w \in UserIds :
        (u # w /\ Exists(us, u) /\ Exists(us, w))
        => /\ us[u].email # us[w].email
           /\ variant = "layered" => us[u].username # us[w].username

\* C18: in every reachable state no two user records share a username
\* (flat: the login column, email) and, in the layered variant, no two share
\* an email; a registration that names an existing username or email fails
\* and creates no user.
UsernameUniqueness ==
    [][/\ UsersUniqueIn(users')
       /\ \A body \in RegisterBodies :
            (/\ variant = "layered"
             /\ get_by_username(body.username) \/ get_by_email(body.email)
             /\ register_user(body))
            => /\ last'.op = "register_user" /\ last'.status \in {400, 500}
               /\ users' = users /\ next_user' = next_user
               /\ reqs' = reqs
       /\ \A body \in UserCreateBodies :
            (create_user(UserCreate(body)) \/ create_admin(AdminCreate(body)))
            => users' = users /\ next_user' = next_user]_vars

\* C19: a request bearing a token that resolves to user u is refused with
\* Forbidden exactly when the flag it needs is false in u's current row
\* (approved for item writes, admin for user list, patch and delete),
\* whatever the flags were when the token was issued; and an accepted patch
\* writes the flags it names into the row, so that they decide every later
\* request of the patched user.
CurrentFlags ==
    [][/\ \A t \in IssuedTokens :
            LET u == oauth2_verify_at(t, now, users) IN
            u # 0 =>
               /\ ItemWrite(t, u) =>
                     /\ reqs' = reqs <=> ~users[u].approved
                     /\ reqs' = reqs => (last'.status = 403 /\ last'.caller = u)
               /\ UserAdministration(t, u) =>
                     /\ reqs' = reqs <=> ~users[u].admin
                     /\ reqs' = reqs => (last'.status = 403 /\ last'.caller = u)
               /\ UserPatchRequest(t, u) =>
                     \E r \in BagToSet(reqs') :
                        /\ r.op = "update_user" /\ r.caller = u
                        /\ r.seen.admin = users[u].admin
       /\ \A r \in InFlight :
            (r.op = "update_user" /\ r.pc = "lookup" /\ StepOf(r))
            => (Completes(r) /\ last'.status = 403 <=> ~r.seen.admin)
       /\ \A r \in InFlight :
            (r.op = "update_user" /\ r.pc = "update" /\ StepOf(r)
             /\ Exists(users, r.target))
            => /\ users'[r.target].approved = r.arg.approved
               /\ users'[r.target].admin = r.arg.admin]_vars

\* User 1, approved at the start, was refused an item write after a patch
\* set approved to false in its row, and user 2, not approved at the start,
\* owns a product it posted after a patch approved it.
CurrentFlagsWitness ==
    /\ variant = "flat"
    /\ last.op = "post_product" /\ last.status = 403 /\ last.caller = 1
    /\ Exists(users, 1) /\ ~users[1].approved
    /\ RegisteredUsers("flat")[1].approved
    /\ ~RegisteredUsers("flat")[2].approved
    /\ \E p \in ItemIds : Exists(products, p) /\ products[p].user_id = 2

====
